---- MODULE Spec2Model ----
(***************************************************************************)
(* A model of stagent's review core: the hunk/line model (types.rs), the   *)
(* ingestion and splitting of hunks (diff.rs, patch.rs), the staging       *)
(* engine (staging.rs), the editor round trip (editor.rs), the report      *)
(* (feedback.rs) and the session operations of the application (app.rs).   *)
(*                                                                         *)
(* Text is modelled as a sequence of byte codes (10 = '\n', 13 = '\r'),    *)
(* so that str::lines, join and trim_end_matches are real conversions.     *)
(* Option<u32> line numbers use None == -1.                                *)
(***************************************************************************)
EXTENDS Integers, Sequences, FiniteSets, TLC

VARIABLES
    files,          \* App.files: sequence of FileDiff
    selected_file,  \* App.selected_file (0-based)
    selected_hunk,  \* App.selected_hunk (0-based)
    scroll_offset,  \* App.scroll_offset
    message,        \* App.message (None == "")
    dirty,          \* App.dirty
    no_stage,       \* App.no_stage
    index,          \* repository index: path -> stored text (the content
                    \* of the blob the entry names), Absent without entry
    head,           \* path -> text of the file in the HEAD tree, or Absent
    intent_to_add,  \* path -> the entry's intent-to-add flag
    odb,            \* object database: the blobs written so far
    mode,           \* App.mode
    feedback,       \* App.feedback
    editor_state,   \* run's editor_state: None or an EditorState
    tmpfile,        \* content on disk of the session's temp file
    pane,           \* "none", "open" or "closed": the editor's tmux pane
    poller,         \* the poller thread: polls made, None when it has exited
    rx,             \* messages waiting in the close-notification channel
    returned,       \* what run returned, None while the loop runs
    sessions,       \* history: per started editor session, the hunk it was
                    \* opened for and the extractor calls made for it
    arg,            \* argument record of the pure function under test
    ret,            \* its return value
    pc              \* "idle", "call", or the name of the function whose call
                    \* arg and ret record

vars == <<files, selected_file, selected_hunk, scroll_offset, message, dirty,
          no_stage, index, head, intent_to_add, odb, mode, feedback,
          editor_state, tmpfile, pane, poller, rx, returned, sessions,
          arg, ret, pc>>

\* The editor session: App.mode and App.feedback, the locals of run, the
\* temp file, the tmux pane and the poller thread
editorVars == <<mode, feedback, editor_state, tmpfile, pane, poller, rx,
                returned, sessions>>

\* The repository besides the index content
repoVars == <<intent_to_add, odb>>

sessionVars == <<files, selected_file, selected_hunk, scroll_offset, message,
                 dirty, no_stage, index, head, repoVars, editorVars>>

callVars == <<arg, ret, pc>>

-----------------------------------------------------------------------------
(* Bounds *)

MaxSplitLines == 7      \* longest hunk handed to split_hunk alone
MaxStart == 2           \* largest old_start of a generated hunk
MaxSeqLines == 2        \* longest hunk of a two-hunk file staged in sequence
MaxGap == 1             \* most unchanged lines between two ingested hunks
MaxStr == 3             \* longest stored text handed to reconstruct_blob alone
MaxBlobLines == 2       \* longest hunk handed to reconstruct_blob alone
MaxOffset == 1          \* largest |line_offset| handed to reconstruct_blob alone
MaxHunks == 3           \* most hunks of the file handed to compute_line_offset
MaxHunkLines == 5       \* longest ingested hunk of a review session
MaxStored == 2          \* most bytes of a stored blob handed to stage_hunk alone
MaxCommentLines == 2    \* longest hunk whose comment template is parsed
MaxEditLines == 2       \* longest hunk whose edit template is compared
MaxEdited == 4          \* most bytes of a saved edit file
MaxSessions == 2        \* most editor sessions opened in a review session
MaxPolls == 2           \* polls of the pane before the poller gives up
MaxParseLines == 3      \* longest body of the first hunk of a parsed patch
MaxCrossLines == 3      \* longest hunk of a change ingested both ways
MaxFeedbacks == 3       \* longest feedback list handed to format_feedback
MaxFormatLines == 4     \* longest hunk whose comments are formatted
MaxTyped == 2           \* most comment lines typed at one place of a template
MaxRunSessions == 1     \* most editor sessions of a staging-mode run

-----------------------------------------------------------------------------
(* Generic helpers *)

None == -1

\* Option values that are not numbers: Option::None and Some(x)
Nothing == <<>>
Some(x) == <<x>>

\* What index and head hold for a path without an entry
Absent == <<None>>
NL == 10
CR == 13

Min(a, b) == IF a <= b THEN a ELSE b
Max(a, b) == IF a >= b THEN a ELSE b

\* usize::saturating_sub
saturating_sub(a, b) == IF a >= b THEN a - b ELSE 0

LineKinds == {"Context", "Added", "Removed"}
HunkStatuses == {"Pending", "Staged", "Skipped", "Edited", "Commented"}

\* All sequences over S of length lo..hi
SeqsOf(S, lo, hi) == UNION {[1..n -> S] : n \in lo..hi}

RECURSIVE Concat(_)
Concat(ss) == IF ss = <<>> THEN <<>> ELSE Head(ss) \o Concat(Tail(ss))

-----------------------------------------------------------------------------
(* Ingestion of one hunk body: line kinds -> DiffLines with both line      *)
(* number views, as patch.rs parse_hunk assigns them.                      *)
(* The text of old line n is "o<n>", of new (added) line m is "n<m>".      *)

OldText(n) == <<111, 48 + n>>
NewText(m) == <<110, 48 + m>>

RECURSIVE HunkBody(_, _, _)
HunkBody(kinds, old_lineno, new_lineno) ==
    IF kinds = <<>> THEN <<>>
    ELSE LET k == Head(kinds) IN
         IF k = "Added" THEN
            <<[kind |-> "Added", content |-> Append(NewText(new_lineno), NL),
               old_lineno |-> None, new_lineno |-> new_lineno]>>
            \o HunkBody(Tail(kinds), old_lineno, new_lineno + 1)
         ELSE IF k = "Removed" THEN
            <<[kind |-> "Removed", content |-> Append(OldText(old_lineno), NL),
               old_lineno |-> old_lineno, new_lineno |-> None]>>
            \o HunkBody(Tail(kinds), old_lineno + 1, new_lineno)
         ELSE
            <<[kind |-> "Context", content |-> Append(OldText(old_lineno), NL),
               old_lineno |-> old_lineno, new_lineno |-> new_lineno]>>
            \o HunkBody(Tail(kinds), old_lineno + 1, new_lineno + 1)

\* Tally of the lines whose kind is in ks
CountKinds(lines, ks) == Cardinality({i \in 1..Len(lines) : lines[i].kind \in ks})

\* A hunk header "@@ -a,b +c,d @@" (part = 0) or
\* "@@ -a,b +c,d @@ split part/total"
Header(os, ol, ns, nl, part, total) == <<"@@", os, ol, ns, nl, part, total>>

\* An ingested hunk: header counts are those of the body, status Pending
parse_hunk(old_start, new_start, kinds) ==
    LET body == HunkBody(kinds, old_start, new_start)
        ol == CountKinds(body, {"Context", "Removed"})
        nl == CountKinds(body, {"Context", "Added"})
    IN [header |-> Header(old_start, ol, new_start, nl, 0, 0),
        lines |-> body,
        status |-> "Pending",
        old_start |-> old_start,
        old_lines |-> ol,
        new_start |-> new_start,
        new_lines |-> nl]

-----------------------------------------------------------------------------
(* diff.rs: split_hunk *)

context_lines == 3

\* clamped_before without the clamp against the previous region's window
clamped_before_unclamped(len, regions, r) ==
    saturating_sub(regions[r][1], context_lines)

\* First index of the slice of region r (1-based r), diff.rs 145-156
clamped_before(len, regions, r) ==
    LET start == regions[r][1]
        ctx_before_start == saturating_sub(start, context_lines)
    IN IF r > 1 THEN
          LET prev_end == regions[r - 1][2]
              prev_after == Min(prev_end + context_lines, len - 1)
          IN Min(Max(ctx_before_start, prev_after + 1), start)
       ELSE ctx_before_start

\* The re-tally with Context counted on the original side only
RECURSIVE TallyLoop_context_once(_, _, _)
TallyLoop_context_once(lines, old_count, new_count) ==
    IF lines = <<>> THEN <<old_count, new_count>>
    ELSE IF Head(lines).kind \in {"Context", "Removed"} THEN
        TallyLoop_context_once(Tail(lines), old_count + 1, new_count)
    ELSE TallyLoop_context_once(Tail(lines), old_count, new_count + 1)

\* The re-tally loop of diff.rs 171-182: <<old_count, new_count>>
RECURSIVE TallyLoop(_, _, _)
TallyLoop(lines, old_count, new_count) ==
    IF lines = <<>> THEN <<old_count, new_count>>
    ELSE IF Head(lines).kind = "Context" THEN
        TallyLoop(Tail(lines), old_count + 1, new_count + 1)
    ELSE IF Head(lines).kind = "Removed" THEN
        TallyLoop(Tail(lines), old_count + 1, new_count)
    ELSE TallyLoop(Tail(lines), old_count, new_count + 1)

\* A sub-hunk that inherits the parent's status
SubHunkStatus_parent(hunk) == hunk.status

\* The status given to a sub-hunk (diff.rs 207)
SubHunkStatus(hunk) == "Pending"

\* The early return taken only when there is no region at all
Unsplittable_strict(regions) == Len(regions) < 1

\* regions.len() <= 1 (diff.rs 132)
Unsplittable(regions) == Len(regions) <= 1

split_hunk(hunk) ==
    LET
        \* One sub-hunk (diff.rs 144-212), r is the 1-based region index
        SubHunk(regions, r) ==
            LET
                \* Last index of the slice of region r, diff.rs 146, 158-166
                clamped_after(len) ==
                    LET end == regions[r][2]
                        ctx_after_end == Min(end + context_lines, len - 1)
                    IN IF r + 1 <= Len(regions) THEN
                          LET next_start == regions[r + 1][1]
                              next_before == saturating_sub(next_start, context_lines)
                          IN Max(Min(ctx_after_end, saturating_sub(next_before, 1)), end)
                       ELSE ctx_after_end
                \* lines.iter().find_map(|l| l.old_lineno).unwrap_or(fallback)
                RECURSIVE FindOldLineno(_, _)
                FindOldLineno(lines, fallback) ==
                    IF lines = <<>> THEN fallback
                    ELSE IF Head(lines).old_lineno # None THEN Head(lines).old_lineno
                    ELSE FindOldLineno(Tail(lines), fallback)
                RECURSIVE FindNewLineno(_, _)
                FindNewLineno(lines, fallback) ==
                    IF lines = <<>> THEN fallback
                    ELSE IF Head(lines).new_lineno # None THEN Head(lines).new_lineno
                    ELSE FindNewLineno(Tail(lines), fallback)
                cb == clamped_before(Len(hunk.lines), regions, r)
                ca == clamped_after(Len(hunk.lines))
                lines == SubSeq(hunk.lines, cb + 1, ca + 1)
                oc == TallyLoop(lines, 0, 0)[1]
                nc == TallyLoop(lines, 0, 0)[2]
                os == FindOldLineno(lines, hunk.old_start)
                ns == FindNewLineno(lines, hunk.new_start)
            IN [header |-> Header(os, oc, ns, nc, r, Len(regions)),
                lines |-> lines,
                status |-> SubHunkStatus(hunk),
                old_start |-> os,
                old_lines |-> oc,
                new_start |-> ns,
                new_lines |-> nc]
        \* The region scan (diff.rs 108-130); indices are 0-based, ends inclusive
        RECURSIVE RegionScan(_, _, _, _, _)
        RegionScan(lines, i, regions, in_region, region_start) ==
            IF i >= Len(lines) THEN
                IF in_region THEN Append(regions, <<region_start, Len(lines) - 1>>)
                ELSE regions
            ELSE IF lines[i + 1].kind \in {"Added", "Removed"} THEN
                IF ~in_region THEN RegionScan(lines, i + 1, regions, TRUE, i)
                ELSE RegionScan(lines, i + 1, regions, TRUE, region_start)
            ELSE
                IF in_region THEN
                    RegionScan(lines, i + 1, Append(regions, <<region_start, i - 1>>),
                               FALSE, region_start)
                ELSE RegionScan(lines, i + 1, regions, FALSE, region_start)
        Regions(lines) == RegionScan(lines, 0, <<>>, FALSE, 0)
        regions == Regions(hunk.lines) IN
    IF Unsplittable(regions) THEN <<hunk>>
    ELSE [r \in 1..Len(regions) |-> SubHunk(regions, r)]

-----------------------------------------------------------------------------
(* app.rs: the session (App) *)

FileDiff(path, hunks) ==
    [path |-> path, hunks |-> hunks, status |-> "Modified", is_binary |-> FALSE]

\* App::current_hunk() is Some
HasCurrentHunk ==
    /\ selected_file < Len(files)
    /\ selected_hunk < Len(files[selected_file + 1].hunks)

CurrentHunk == files[selected_file + 1].hunks[selected_hunk + 1]

\* No editor session: the state App::new and run start from (app.rs 45-59, 416)
EditorIdle ==
    /\ mode = "Browsing"
    /\ feedback = <<>>
    /\ editor_state = Nothing
    /\ tmpfile = <<>>
    /\ pane = "none"
    /\ poller = None
    /\ rx = 0
    /\ returned = Nothing
    /\ sessions = <<>>

\* A repository whose index entries are plain entries of blobs it holds
RepoTracked ==
    /\ intent_to_add = [p \in DOMAIN index |-> FALSE]
    /\ odb = ({index[p] : p \in DOMAIN index} \cup {head[p] : p \in DOMAIN head})
                \ {Absent}

\* Locals of a handler that calls no function under study
ResetCall ==
    /\ pc' = "idle"
    /\ arg' = <<>>
    /\ ret' = <<>>

\* App::split_current_hunk (app.rs 228-246); arg and ret record the hunk
\* handed to split_hunk and the sub_hunks it returned
split_current_hunk ==
    LET
        \* Vec::splice(i..=i, subs), i 0-based
        Splice(hunks, i, subs) ==
            SubSeq(hunks, 1, i) \o subs \o SubSeq(hunks, i + 2, Len(hunks))
    IN
    /\ IF HasCurrentHunk THEN
          LET sub_hunks == split_hunk(CurrentHunk) IN
          /\ pc' = "split_hunk"
          /\ arg' = CurrentHunk
          /\ ret' = sub_hunks
          /\ IF Len(sub_hunks) > 1 THEN
                /\ files' = [files EXCEPT ![selected_file + 1].hunks =
                                Splice(@, selected_hunk, sub_hunks)]
                /\ message' = "Hunk split"
             ELSE
                /\ message' = "Cannot split hunk further"
                /\ files' = files
       ELSE
          /\ ResetCall
          /\ UNCHANGED <<files, message>>
    /\ dirty' = TRUE
    /\ UNCHANGED <<selected_file, selected_hunk, scroll_offset, no_stage,
                   index, head, repoVars, editorVars>>

-----------------------------------------------------------------------------
(* staging.rs: reconstruct_blob, on text as byte sequences *)

\* Index of the first "\n" of s at or after index i, 0 if there is none
NextNL(s, i) ==
    LET at == {j \in i..Len(s) : s[j] = NL}
    IN IF at = {} THEN 0 ELSE CHOOSE j \in at : \A k \in at : j <= k

\* str::lines().collect() from index i: an unterminated last line is kept
\* as it is
RECURSIVE LinesScan(_, _)
LinesScan(s, i) ==
    LET
        \* str::lines strips "\n" and then one "\r" from a terminated line
        StripCR(line) ==
            IF line # <<>> /\ line[Len(line)] = CR THEN SubSeq(line, 1, Len(line) - 1)
            ELSE line
    IN
    IF i > Len(s) THEN <<>>
    ELSE LET e == NextNL(s, i)
         IN IF e = 0 THEN <<SubSeq(s, i, Len(s))>>
            ELSE <<StripCR(SubSeq(s, i, e - 1))>> \o LinesScan(s, e + 1)

StrLines(s) == LinesScan(s, 1)

\* [String]::join("\n")
RECURSIVE Join(_)
Join(ls) ==
    IF ls = <<>> THEN <<>>
    ELSE IF Len(ls) = 1 THEN ls[1]
    ELSE ls[1] \o <<NL>> \o Join(Tail(ls))

\* str::trim_end_matches('\n')
RECURSIVE trim_end_matches(_)
trim_end_matches(s) ==
    IF s # <<>> /\ s[Len(s)] = NL THEN trim_end_matches(SubSeq(s, 1, Len(s) - 1))
    ELSE s

ends_with_newline(s) == s # <<>> /\ s[Len(s)] = NL

Skip(ls, n) == SubSeq(ls, n + 1, Len(ls))

\* The "apply hunk lines" loop (staging.rs 166-177)
RECURSIVE ApplyHunkLines(_)
ApplyHunkLines(lines) ==
    IF lines = <<>> THEN <<>>
    ELSE IF Head(lines).kind \in {"Context", "Added"} THEN
        <<trim_end_matches(Head(lines).content)>> \o ApplyHunkLines(Tail(lines))
    ELSE ApplyHunkLines(Tail(lines))

\* The start index without the conversion from 1-based to 0-based
hunk_start_idx_onebased(hunk, line_offset) ==
    Max(hunk.old_start + line_offset, 0)

\* 0-based index of the first original line the hunk replaces (staging.rs 149-155)
hunk_start_idx(hunk, line_offset) ==
    LET adjusted_start == Max(hunk.old_start + line_offset, 0)
    IN IF adjusted_start = 0 THEN 0 ELSE adjusted_start - 1

reconstruct_blob(original, hunk, line_offset) ==
    LET
        \* Whether the output gets a final newline (staging.rs 187)
        TrailingNewline == ends_with_newline(original) \/ original = <<>>
        \* iter().take(n) and iter().skip(n)
        Take(ls, n) == SubSeq(ls, 1, Min(n, Len(ls)))
        orig_lines == IF original = <<>> THEN <<>> ELSE StrLines(original)
        start == hunk_start_idx(hunk, line_offset)
        after_hunk_idx == start + hunk.old_lines
        result == Take(orig_lines, start)
                    \o ApplyHunkLines(hunk.lines)
                    \o Skip(orig_lines, after_hunk_idx)
        output == Join(result)
    IN IF TrailingNewline THEN Append(output, NL) ELSE output

\* <[u8]>::contains(&0) (staging.rs 99, 118)
contains_nul(bytes) == \E i \in 1..Len(bytes) : bytes[i] = 0

\* String::from_utf8 succeeds (staging.rs 105, 124): the bytes are
\* well-formed UTF-8
RECURSIVE is_utf8(_)
is_utf8(bytes) ==
    LET
        \* A UTF-8 continuation byte
        IsCont(b) == b \in 128..191
    IN
    IF bytes = <<>> THEN TRUE
    ELSE LET b == bytes[1]
             n == Len(bytes)
         IN IF b < 128 THEN is_utf8(Tail(bytes))
            ELSE IF b \in 194..223 THEN
                /\ n >= 2
                /\ IsCont(bytes[2])
                /\ is_utf8(SubSeq(bytes, 3, n))
            ELSE IF b \in 224..239 THEN
                /\ n >= 3
                /\ bytes[2] \in (IF b = 224 THEN 160..191
                                 ELSE IF b = 237 THEN 128..159 ELSE 128..191)
                /\ IsCont(bytes[3])
                /\ is_utf8(SubSeq(bytes, 4, n))
            ELSE IF b \in 240..244 THEN
                /\ n >= 4
                /\ bytes[2] \in (IF b = 240 THEN 144..191
                                 ELSE IF b = 244 THEN 128..143 ELSE 128..191)
                /\ IsCont(bytes[3])
                /\ IsCont(bytes[4])
                /\ is_utf8(SubSeq(bytes, 5, n))
            ELSE FALSE

\* The blob's content taken as text without any check
BlobText_unchecked(bytes, path) == [err |-> Nothing, content |-> bytes]

\* The checks made on a blob's content (staging.rs 99-107, 118-125): the
\* error names the path
BlobText(bytes, path) ==
    IF contains_nul(bytes) THEN
        [err |-> Some([msg |-> "File appears to be binary (contains null bytes)",
                       path |-> path]),
         content |-> <<>>]
    ELSE IF ~is_utf8(bytes) THEN
        [err |-> Some([msg |-> "File is not valid UTF-8", path |-> path]),
         content |-> <<>>]
    ELSE [err |-> Nothing, content |-> bytes]

\* index.get_path(path, 0) is Some
HasEntry(idx, path) == path \in DOMAIN idx /\ idx[path] # Absent

\* get_index_content (staging.rs 89-131): the entry's blob, else the blob of
\* the HEAD tree, else the empty string
get_index_content(idx, hd, path) ==
    IF HasEntry(idx, path) THEN BlobText(idx[path], path)
    ELSE IF path \in DOMAIN hd /\ hd[path] # Absent THEN BlobText(hd[path], path)
    ELSE [err |-> Nothing, content |-> <<>>]

\* The extended flags the entry is written with, when the flag is kept
EntryFlags_kept(idx, ita, path) ==
    IF HasEntry(idx, path) THEN ita[path] ELSE FALSE

\* The intent-to-add flag the entry is written with (staging.rs 48-79): the
\* existing entry's flags with the bit cleared, or those of a fresh entry
EntryFlags(idx, ita, path) ==
    IF HasEntry(idx, path) THEN ita[path] /\ FALSE ELSE FALSE

\* stage_hunk (staging.rs 21-85) on the repository <<idx, hd, ita, db>>: the
\* error, or the repository after the blob is written and the entry updated
stage_hunk(idx, hd, ita, db, file_diff, hunk, line_offset) ==
    LET file_path == file_diff.path
        old_content == get_index_content(idx, hd, file_path)
    IN IF old_content.err # Nothing THEN
           [err |-> old_content.err, index |-> idx, intent_to_add |-> ita,
            odb |-> db]
       ELSE
           LET new_content == reconstruct_blob(old_content.content, hunk, line_offset)
           IN [err |-> Nothing,
               index |-> [idx EXCEPT ![file_path] = new_content],
               intent_to_add |-> [ita EXCEPT ![file_path] =
                                     EntryFlags(idx, ita, file_path)],
               odb |-> db \cup {new_content}]

-----------------------------------------------------------------------------
(* app.rs: offset computation, selection, stage and skip *)

\* The offset term with the sign of the drift reversed
OffsetTerm_negated(h) ==
    IF h.status = "Staged" THEN h.old_lines - h.new_lines ELSE 0

\* The offset term of a loop that does not look at the status
OffsetTerm_any_status(h) == h.new_lines - h.old_lines

\* What a hunk with the given status adds to the offset (app.rs 166-168)
OffsetTerm(h) ==
    IF h.status = "Staged" THEN h.new_lines - h.old_lines ELSE 0

compute_line_offset(fs, file_idx, hunk_idx) ==
    LET
        \* The loop of App::compute_line_offset (app.rs 162-169)
        RECURSIVE OffsetLoop(_, _, _)
        OffsetLoop(hunks, idx, offset) ==
            IF idx >= Len(hunks) THEN offset
            ELSE IF idx = hunk_idx THEN offset
            ELSE OffsetLoop(hunks, idx + 1, offset + OffsetTerm(hunks[idx + 1]))
    IN
    IF file_idx < Len(fs) THEN OffsetLoop(fs[file_idx + 1].hunks, 0, 0)
    ELSE 0

\* The selection after App::select_next_hunk (app.rs 105-116): <<file, hunk>>
NextSelection(fs, sf, sh) ==
    IF sf < Len(fs) THEN
        IF sh + 1 < Len(fs[sf + 1].hunks) THEN <<sf, sh + 1>>
        ELSE IF sf + 1 < Len(fs) THEN <<sf + 1, 0>>
        ELSE <<0, 0>>
    ELSE <<sf, sh>>

scroll_to_selected_hunk(fs, sf, sh, cur) ==
    LET
        \* App::scroll_to_selected_hunk (app.rs 366-379): the new scroll_offset
        RECURSIVE ScrollLoop(_, _, _)
        ScrollLoop(hunks, idx, line_count) ==
            IF idx >= Len(hunks) THEN cur
            ELSE IF idx = sh THEN line_count
            ELSE ScrollLoop(hunks, idx + 1, line_count + 1 + Len(hunks[idx + 1].lines) + 1)
    IN
    IF sf < Len(fs) THEN ScrollLoop(fs[sf + 1].hunks, 0, 0) ELSE cur

\* App::select_next_hunk (app.rs 104-119)
select_next_hunk ==
    LET sel == NextSelection(files, selected_file, selected_hunk) IN
    /\ selected_file' = sel[1]
    /\ selected_hunk' = sel[2]
    /\ scroll_offset' = scroll_to_selected_hunk(files, sel[1], sel[2], scroll_offset)
    /\ dirty' = TRUE
    /\ ResetCall
    /\ UNCHANGED <<files, message, no_stage, index, head, repoVars, editorVars>>

\* App::select_prev_hunk (app.rs 122-133)
select_prev_hunk ==
    LET
        \* The selection after App::select_prev_hunk (app.rs 123-130)
        PrevSelection(fs, sf, sh) ==
            IF sh > 0 THEN <<sf, sh - 1>>
            ELSE IF sf > 0 THEN
                <<sf - 1, IF sf - 1 < Len(fs)
                          THEN saturating_sub(Len(fs[sf].hunks), 1) ELSE sh>>
            ELSE <<sf, sh>>
        sel == PrevSelection(files, selected_file, selected_hunk) IN
    /\ selected_file' = sel[1]
    /\ selected_hunk' = sel[2]
    /\ scroll_offset' = scroll_to_selected_hunk(files, sel[1], sel[2], scroll_offset)
    /\ dirty' = TRUE
    /\ ResetCall
    /\ UNCHANGED <<files, message, no_stage, index, head, repoVars, editorVars>>

\* The guard without its test of the status
is_pending_any_status == HasCurrentHunk

\* The guard of App::with_current_pending_hunk (app.rs 183-187)
is_pending == HasCurrentHunk /\ CurrentHunk.status = "Pending"

\* The part of stage/skip after the decision: status, message, then
\* select_next_hunk on the updated files
Decide(status, msg) ==
    LET fs == [files EXCEPT ![selected_file + 1].hunks[selected_hunk + 1].status = status]
        sel == NextSelection(fs, selected_file, selected_hunk)
    IN /\ files' = fs
       /\ message' = msg
       /\ selected_file' = sel[1]
       /\ selected_hunk' = sel[2]
       /\ scroll_offset' = scroll_to_selected_hunk(fs, sel[1], sel[2], scroll_offset)
       /\ dirty' = TRUE

\* The handler without its no_stage test: every accepted hunk is written
stage_current_hunk_always ==
    IF is_pending THEN
        LET offset == compute_line_offset(files, selected_file, selected_hunk)
            staged == stage_hunk(index, head, intent_to_add, odb,
                                 files[selected_file + 1], CurrentHunk, offset)
        IN /\ pc' = "compute_line_offset"
           /\ arg' = <<selected_file, selected_hunk>>
           /\ ret' = offset
           /\ index' = staged.index
           /\ intent_to_add' = staged.intent_to_add
           /\ odb' = staged.odb
           /\ IF staged.err = Nothing THEN Decide("Staged", "Hunk staged")
              ELSE /\ message' = IF staged.err[1].msg = "File is not valid UTF-8"
                                 THEN "Stage error: File is not valid UTF-8"
                                 ELSE "Stage error: File appears to be binary"
                   /\ UNCHANGED <<files, selected_file, selected_hunk,
                                  scroll_offset, dirty>>
           /\ UNCHANGED <<no_stage, head, editorVars>>
    ELSE
        /\ ResetCall
        /\ UNCHANGED sessionVars

\* The handler with the status set before stage_hunk is called: a failure
\* leaves the hunk Staged
stage_current_hunk_status_first ==
    IF is_pending THEN
        IF ~no_stage THEN
            LET offset == compute_line_offset(files, selected_file, selected_hunk)
                staged == stage_hunk(index, head, intent_to_add, odb,
                                     files[selected_file + 1], CurrentHunk, offset)
            IN /\ pc' = "compute_line_offset"
               /\ arg' = <<selected_file, selected_hunk>>
               /\ ret' = offset
               /\ index' = staged.index
               /\ intent_to_add' = staged.intent_to_add
               /\ odb' = staged.odb
               /\ IF staged.err = Nothing THEN Decide("Staged", "Hunk staged")
                  ELSE /\ message' = "Stage error: File is not valid UTF-8"
                       /\ files' = [files EXCEPT
                              ![selected_file + 1].hunks[selected_hunk + 1].status =
                                  "Staged"]
                       /\ UNCHANGED <<selected_file, selected_hunk,
                                      scroll_offset, dirty>>
               /\ UNCHANGED <<no_stage, head, editorVars>>
        ELSE
            /\ ResetCall
            /\ Decide("Staged", "Hunk staged")
            /\ UNCHANGED <<no_stage, index, head, repoVars, editorVars>>
    ELSE
        /\ ResetCall
        /\ UNCHANGED sessionVars

\* The key 'y' (app.rs 485-489): App::stage_current_hunk (app.rs 198-215)
\* and the message run sets when it fails; arg and ret record the call of
\* compute_line_offset made for the hunk
stage_current_hunk ==
    IF is_pending THEN
        IF ~no_stage THEN
            LET offset == compute_line_offset(files, selected_file, selected_hunk)
                staged == stage_hunk(index, head, intent_to_add, odb,
                                     files[selected_file + 1], CurrentHunk, offset)
            IN /\ pc' = "compute_line_offset"
               /\ arg' = <<selected_file, selected_hunk>>
               /\ ret' = offset
               /\ index' = staged.index
               /\ intent_to_add' = staged.intent_to_add
               /\ odb' = staged.odb
               /\ IF staged.err = Nothing THEN Decide("Staged", "Hunk staged")
                  ELSE /\ message' = IF staged.err[1].msg = "File is not valid UTF-8"
                                     THEN "Stage error: File is not valid UTF-8"
                                     ELSE "Stage error: File appears to be binary"
                       /\ UNCHANGED <<files, selected_file, selected_hunk,
                                      scroll_offset, dirty>>
               /\ UNCHANGED <<no_stage, head, editorVars>>
        ELSE
            /\ ResetCall
            /\ Decide("Staged", "Hunk staged")
            /\ UNCHANGED <<no_stage, index, head, repoVars, editorVars>>
    ELSE
        /\ ResetCall
        /\ UNCHANGED sessionVars

\* App::skip_current_hunk (app.rs 218-225)
skip_current_hunk ==
    IF is_pending THEN
        /\ Decide("Skipped", "Hunk skipped")
        /\ ResetCall
        /\ UNCHANGED <<no_stage, index, head, repoVars, editorVars>>
    ELSE
        /\ ResetCall
        /\ UNCHANGED sessionVars

-----------------------------------------------------------------------------
(* Ingestion of a whole file: hunks laid out in ascending order, gap       *)
(* unchanged lines between two hunks, and the text the index holds.       *)

RECURSIVE IngestHunks(_, _, _, _)
IngestHunks(shapes, old_start, new_start, gap) ==
    IF shapes = <<>> THEN <<>>
    ELSE LET h == parse_hunk(old_start, new_start, Head(shapes))
         IN <<h>> \o IngestHunks(Tail(shapes), old_start + h.old_lines + gap,
                                 new_start + h.new_lines + gap, gap)

\* Number of old lines the hunks reach
OldExtent(hunks) ==
    IF hunks = <<>> THEN 0
    ELSE hunks[Len(hunks)].old_start + hunks[Len(hunks)].old_lines - 1

\* The old file: lines "o1".."oN", the last one terminated iff eol
OldFile(n, eol) ==
    LET text == Concat([k \in 1..n |-> Append(OldText(k), NL)])
    IN IF eol \/ n = 0 THEN text ELSE SubSeq(text, 1, Len(text) - 1)

-----------------------------------------------------------------------------
(* SpecSplit: a session holding one hunk of any shape and status, on which *)
(* split is requested.                                                     *)

InitSplit ==
    LET
        SplitInputs ==
            {[parse_hunk(s, s, kinds) EXCEPT !.status = st] :
                s \in {1, MaxStart},
                kinds \in SeqsOf(LineKinds, 0, MaxSplitLines),
                st \in HunkStatuses}
    IN
    /\ \E h \in SplitInputs : files = <<FileDiff(1, <<h>>)>>
    /\ selected_file = 0
    /\ selected_hunk = 0
    /\ scroll_offset = 0
    /\ message = ""
    /\ dirty = TRUE
    /\ no_stage = TRUE
    /\ index = <<>>
    /\ head = <<>>
    /\ RepoTracked
    /\ EditorIdle
    /\ arg = <<>>
    /\ ret = <<>>
    /\ pc = "idle"

SpecSplit == InitSplit /\ [][split_current_hunk]_vars

-----------------------------------------------------------------------------
(* Properties of split_hunk *)

Range(s) == {s[i] : i \in 1..Len(s)}

\* The change regions of a line sequence, stated directly: the maximal runs
\* of Added/Removed lines, as <<first, last>> 1-based positions
MaximalRuns(lines) ==
    {<<a, b>> \in (1..Len(lines)) \X (1..Len(lines)) :
        /\ a <= b
        /\ \A i \in a..b : lines[i].kind # "Context"
        /\ a = 1 \/ lines[a - 1].kind = "Context"
        /\ b = Len(lines) \/ lines[b + 1].kind = "Context"}

\* The k-th run in ascending order
NthRun(lines, k) ==
    CHOOSE r \in MaximalRuns(lines) :
        Cardinality({q \in MaximalRuns(lines) : q[1] < r[1]}) = k - 1

LinesOf(hunks) == Concat([i \in 1..Len(hunks) |-> hunks[i].lines])

SplitDone == pc = "split_hunk" /\ Cardinality(MaximalRuns(arg.lines)) >= 2

\* C4: for every hunk with two or more change regions, the lines of the
\* sub-hunks returned by split_hunk, concatenated in order, are exactly the
\* lines of the input hunk.
C4_SplitRoundTrip == SplitDone => LinesOf(ret) = arg.lines

\* C5: when two adjacent regions are separated by at most 6 context lines,
\* every context line between them belongs to exactly one of the two
\* sub-hunks (none dropped, none shared).
C5_GapContextPartitioned ==
    SplitDone /\ Len(ret) = Cardinality(MaximalRuns(arg.lines)) =>
        \A k \in 1..(Len(ret) - 1) :
            LET r1 == NthRun(arg.lines, k)
                r2 == NthRun(arg.lines, k + 1)
            IN r2[1] - r1[2] - 1 <= 2 * context_lines =>
                 \A i \in (r1[2] + 1)..(r2[1] - 1) :
                    (arg.lines[i] \in Range(ret[k].lines))
                        # (arg.lines[i] \in Range(ret[k + 1].lines))

\* C6: a hunk with n >= 2 regions yields exactly n sub-hunks; their line
\* slices are contiguous slices of the parent, pairwise disjoint and in
\* ascending order; sub-hunk i holds every line of region i and no Added or
\* Removed line of another region.
C6_OneSubHunkPerRegion ==
    SplitDone =>
        LET lines == arg.lines
            runs == MaximalRuns(lines)
            n == Cardinality(runs)
            run == [k \in 1..n |->
                      CHOOSE r \in runs :
                          Cardinality({q \in runs : q[1] < r[1]}) = k - 1]
            IsSliceAt(i, a) ==
                ret[i].lines = SubSeq(lines, a, a + Len(ret[i].lines) - 1)
            first == [i \in 1..Len(ret) |->
                        IF \E a \in 1..Len(lines) : IsSliceAt(i, a)
                        THEN CHOOSE a \in 1..Len(lines) : IsSliceAt(i, a)
                        ELSE 0]
            last == [i \in 1..Len(ret) |-> first[i] + Len(ret[i].lines) - 1]
        IN /\ Len(ret) = n
           /\ \A i \in 1..Len(ret) :
                 /\ ret[i].lines # <<>>
                 /\ first[i] >= 1
                 /\ first[i] <= run[i][1]
                 /\ run[i][2] <= last[i]
                 /\ \A q \in first[i]..last[i] :
                       lines[q].kind # "Context" =>
                           run[i][1] <= q /\ q <= run[i][2]
           /\ \A i \in 1..(Len(ret) - 1) : last[i] < first[i + 1]

C6_Witness ==
    /\ SplitDone
    /\ Len(ret) = 3
    /\ NthRun(arg.lines, 2)[1] - NthRun(arg.lines, 1)[2] = 2
    /\ message = "Hunk split"

\* C8: every sub-hunk of a split into two or more has status Pending,
\* whatever the parent's status.
C8_SubHunksPending ==
    pc = "split_hunk" /\ Len(ret) >= 2 => \A i \in 1..Len(ret) : ret[i].status = "Pending"

C8_Witness ==
    /\ pc = "split_hunk"
    /\ Len(ret) >= 2
    /\ arg.status = "Staged"
    /\ files[1].hunks = ret

\* C9: for every sub-hunk produced by a split, old_lines is the number of
\* its Context and Removed lines and new_lines the number of its Context and
\* Added lines.
C9_SubHunkCounts ==
    pc = "split_hunk" /\ Len(ret) >= 2 =>
        \A i \in 1..Len(ret) :
            /\ ret[i].old_lines = CountKinds(ret[i].lines, {"Context", "Removed"})
            /\ ret[i].new_lines = CountKinds(ret[i].lines, {"Context", "Added"})

C9_Witness ==
    /\ pc = "split_hunk"
    /\ Len(ret) >= 2
    /\ \E i \in 1..Len(ret) :
          /\ ret[i].old_lines > ret[i].new_lines
          /\ ret[i].new_lines > 0
          /\ \E l \in Range(ret[i].lines) : l.kind = "Context"

\* C10: for a hunk with at most one change region split_hunk returns the
\* input alone, equal in every field, and split_current_hunk leaves the
\* hunk list as it was.
C10_UnsplittableUnchanged ==
    [][(pc' = "split_hunk" /\ Cardinality(MaximalRuns(arg'.lines)) <= 1) =>
            (ret' = <<arg'>> /\ files' = files)]_vars

C10_Witness ==
    /\ pc = "split_hunk"
    /\ Cardinality(MaximalRuns(arg.lines)) = 1
    /\ Len(arg.lines) > context_lines + 1
    /\ \A i \in 1..(context_lines + 1) : arg.lines[i].kind = "Context"
    /\ arg.status = "Commented"
    /\ message = "Cannot split hunk further"
    /\ files[1].hunks = <<arg>>

-----------------------------------------------------------------------------
(* SpecSeq: a staging session on one file with two ingested hunks *)

InitSeq ==
    LET
        \* Two hunks of one diff have an unchanged line between their changes:
        \* changes that touch are one hunk
        Separated(shape1, shape2, gap) ==
            \/ gap > 0
            \/ shape1[Len(shape1)] = "Context"
            \/ shape2[1] = "Context"
    IN
    /\ \E shapes \in [1..2 -> SeqsOf(LineKinds, 1, MaxSeqLines)],
          lead \in 0..1, gap \in 0..MaxGap, eol \in BOOLEAN :
          LET hunks == IngestHunks(shapes, 1 + lead, 1 + lead, gap)
              text == OldFile(OldExtent(hunks) + lead, eol)
          IN /\ Separated(shapes[1], shapes[2], gap)
             /\ files = <<FileDiff(1, hunks)>>
             /\ index = <<text>>
             /\ head = <<text>>
    /\ selected_file = 0
    /\ selected_hunk = 0
    /\ scroll_offset = 0
    /\ message = ""
    /\ dirty = TRUE
    /\ no_stage = FALSE
    /\ RepoTracked
    /\ EditorIdle
    /\ arg = <<>>
    /\ ret = <<>>
    /\ pc = "idle"

SpecSeq == InitSeq /\ [][stage_current_hunk \/ select_next_hunk]_vars

IsNewSide(l) == l.kind # "Removed"

\* A line's content without its terminator
Chomp(c) == IF c # <<>> /\ c[Len(c)] = NL THEN SubSeq(c, 1, Len(c) - 1) ELSE c

\* The new side of a hunk: its Context and Added contents, in order
NewSide(hunk) ==
    LET kept == SelectSeq(hunk.lines, IsNewSide)
    IN [i \in 1..Len(kept) |-> Chomp(kept[i].content)]

\* Both hunks' changes applied to the original at once: each hunk's original
\* range [old_start, old_start + old_lines) replaced by its new side
ApplyBoth(c, h1, h2) ==
    LET L == StrLines(c)
        out == SubSeq(L, 1, h1.old_start - 1)
                 \o NewSide(h1)
                 \o SubSeq(L, h1.old_start + h1.old_lines, h2.old_start - 1)
                 \o NewSide(h2)
                 \o SubSeq(L, h2.old_start + h2.old_lines, Len(L))
    IN IF c = <<>> \/ c[Len(c)] = NL THEN Append(Join(out), NL) ELSE Join(out)

\* C1: with h1 entirely before h2, staging h1 (offset 0) and then h2 with the
\* offset compute_line_offset returns leaves the index holding the original
\* with both hunks' changes applied.
C1_SequentialStagingConverges ==
    (files[1].hunks[1].status = "Staged" /\ files[1].hunks[2].status = "Staged")
        => index[1] = ApplyBoth(head[1], files[1].hunks[1], files[1].hunks[2])

C1_Witness ==
    /\ files[1].hunks[1].status = "Staged"
    /\ files[1].hunks[2].status = "Staged"
    /\ pc = "compute_line_offset"
    /\ arg = <<0, 1>>
    /\ ret < 0
    /\ files[1].hunks[2].old_lines # files[1].hunks[2].new_lines

-----------------------------------------------------------------------------
(* SpecBlob: reconstruct_blob applied to any stored text, hunk and offset *)

\* The session of a specification that only calls a function
SessionIdle ==
    /\ files = <<>>
    /\ selected_file = 0
    /\ selected_hunk = 0
    /\ scroll_offset = 0
    /\ message = ""
    /\ dirty = TRUE
    /\ no_stage = FALSE
    /\ index = <<>>
    /\ head = <<>>
    /\ RepoTracked
    /\ EditorIdle

InitBlob ==
    LET
        BlobHunks ==
            LET
                \* The last line's content without its newline (a file whose last line is
                \* not terminated)
                UnterminatedLast(lines) ==
                    [i \in 1..Len(lines) |->
                        IF i = Len(lines)
                        THEN [lines[i] EXCEPT !.content = SubSeq(@, 1, Len(@) - 1)]
                        ELSE lines[i]]
            IN
            {[parse_hunk(s, s, kinds) EXCEPT
                    !.old_lines = ol,
                    !.lines = IF strip THEN UnterminatedLast(@) ELSE @] :
                s \in 0..MaxStart,
                kinds \in SeqsOf(LineKinds, 0, MaxBlobLines),
                ol \in 0..MaxBlobLines,
                strip \in BOOLEAN}
    IN
    /\ SessionIdle
    /\ arg \in [original : SeqsOf({97, NL, CR}, 0, MaxStr),
                hunk : BlobHunks,
                line_offset : (-MaxOffset)..MaxOffset]
    /\ ret = <<>>
    /\ pc = "call"

CallReconstructBlob ==
    /\ pc = "call"
    /\ ret' = reconstruct_blob(arg.original, arg.hunk, arg.line_offset)
    /\ pc' = "reconstruct_blob"
    /\ UNCHANGED <<arg, sessionVars>>

SpecBlob == InitBlob /\ [][CallReconstructBlob]_vars

\* C2: the result is the first s lines of the original
\* (s = max(0, old_start + offset - 1)), then the hunk's Context and Added
\* contents in order, then the original's lines from index s + old_lines on,
\* joined by newlines, with a final newline iff the original was empty or
\* ended with one.
C2_ReconstructBlobContent ==
    pc = "reconstruct_blob" =>
        LET L == StrLines(arg.original)
            s == Max(0, arg.hunk.old_start + arg.line_offset - 1)
            e == s + arg.hunk.old_lines
            out == [i \in 1..Min(s, Len(L)) |-> L[i]]
                     \o NewSide(arg.hunk)
                     \o [i \in 1..Max(0, Len(L) - e) |-> L[e + i]]
            final == IF arg.original = <<>> \/ arg.original[Len(arg.original)] = NL
                     THEN <<NL>> ELSE <<>>
        IN ret = Join(out) \o final

C2_Witness ==
    /\ pc = "reconstruct_blob"
    /\ arg.line_offset = 1
    /\ arg.hunk.old_start = 1
    /\ arg.hunk.old_lines = 1
    /\ Len(StrLines(arg.original)) = 3
    /\ arg.original[Len(arg.original)] # NL
    /\ \E i \in 1..Len(arg.hunk.lines) : arg.hunk.lines[i].kind = "Removed"
    /\ \E i \in 1..Len(arg.hunk.lines) : arg.hunk.lines[i].kind = "Added"

-----------------------------------------------------------------------------
(* SpecOffset: compute_line_offset on files whose hunks have any status *)

InitOffset ==
    LET
        WithStatuses(hunks, sts) == [i \in 1..Len(hunks) |-> [hunks[i] EXCEPT !.status = sts[i]]]
        OffsetShapes == {<<"Context", "Added", "Added">>, <<"Removed", "Context">>}
    IN
    /\ \E shapes \in SeqsOf(OffsetShapes, 0, MaxHunks) :
          \E sts \in [1..Len(shapes) -> HunkStatuses] :
             files = <<FileDiff(1, WithStatuses(IngestHunks(shapes, 1, 1, 1), sts)),
                       FileDiff(2, WithStatuses(IngestHunks(<<<<"Added">>>>, 1, 1, 1),
                                                <<"Staged">>))>>
    /\ selected_file = 0
    /\ selected_hunk = 0
    /\ scroll_offset = 0
    /\ message = ""
    /\ dirty = TRUE
    /\ no_stage = FALSE
    /\ index = <<>>
    /\ head = <<>>
    /\ RepoTracked
    /\ EditorIdle
    /\ arg = <<>>
    /\ ret = <<>>
    /\ pc = "call"

CallComputeLineOffset ==
    /\ pc = "call"
    /\ \E file_idx \in 0..Len(files), hunk_idx \in 0..(MaxHunks + 1) :
          /\ arg' = <<file_idx, hunk_idx>>
          /\ ret' = compute_line_offset(files, file_idx, hunk_idx)
    /\ pc' = "compute_line_offset"
    /\ UNCHANGED sessionVars

SpecOffset == InitOffset /\ [][CallComputeLineOffset]_vars

\* Positions (1-based) of the Staged hunks of file f that lie before index k
StagedBefore(fs, f, k) ==
    IF f < Len(fs)
    THEN {i \in 1..Len(fs[f + 1].hunks) :
            i - 1 < k /\ fs[f + 1].hunks[i].status = "Staged"}
    ELSE {}

RECURSIVE SumDelta(_, _)
SumDelta(hunks, S) ==
    IF S = {} THEN 0
    ELSE LET i == CHOOSE x \in S : TRUE
         IN hunks[i].new_lines - hunks[i].old_lines + SumDelta(hunks, S \ {i})

\* C3: compute_line_offset(file, k) is the sum of new_lines - old_lines over
\* exactly the hunks of that file with index < k and status Staged.
C3_OffsetIsSumOfStagedBefore ==
    pc = "compute_line_offset" =>
        ret = IF arg[1] < Len(files)
              THEN SumDelta(files[arg[1] + 1].hunks, StagedBefore(files, arg[1], arg[2]))
              ELSE 0

C3_Witness ==
    /\ pc = "compute_line_offset"
    /\ arg = <<0, 2>>
    /\ Len(files[1].hunks) = 3
    /\ files[1].hunks[1].status = "Edited"
    /\ files[1].hunks[2].status = "Staged"
    /\ files[1].hunks[3].status = "Staged"
    /\ files[1].hunks[1].new_lines # files[1].hunks[1].old_lines
    /\ ret = files[1].hunks[2].new_lines - files[1].hunks[2].old_lines

-----------------------------------------------------------------------------
(* Spec: a review session on one file, with stage, skip, split and hunk    *)
(* navigation                                                              *)

SecondHunkShape == <<"Context", "Removed", "Added", "Added">>

Init ==
    /\ \E shape \in SeqsOf(LineKinds, 1, MaxHunkLines), eol \in BOOLEAN :
          LET hunks == IngestHunks(<<shape, SecondHunkShape>>, 1, 1, MaxGap)
              text == OldFile(OldExtent(hunks), eol)
          IN /\ files = <<FileDiff(1, hunks)>>
             /\ index = <<text>>
             /\ head = <<text>>
    /\ selected_file = 0
    /\ selected_hunk = 0
    /\ scroll_offset = 0
    /\ message = ""
    /\ dirty = TRUE
    /\ no_stage = FALSE
    /\ RepoTracked
    /\ EditorIdle
    /\ arg = <<>>
    /\ ret = <<>>
    /\ pc = "idle"

Next ==
    \/ stage_current_hunk
    \/ skip_current_hunk
    \/ split_current_hunk
    \/ select_next_hunk
    \/ select_prev_hunk

Spec == Init /\ [][Next]_vars

\* C7: the hunks of a file stay in ascending order of original-side start
\* and never overlap on the original side, after ingestion and after any
\* sequence of splits.
C7_HunksOrderedDisjoint ==
    \A f \in 1..Len(files) :
        \A i \in 1..(Len(files[f].hunks) - 1) :
            LET a == files[f].hunks[i]
                b == files[f].hunks[i + 1]
            IN /\ a.old_start <= b.old_start
               /\ (a.old_lines > 0 /\ b.old_lines > 0)
                     => a.old_start + a.old_lines <= b.old_start

-----------------------------------------------------------------------------
(* SpecStage: stage_hunk alone, on a repository of two paths whose stored  *)
(* content may be text, binary or missing.                                 *)

\* Path 1 has any entry (a blob, an intent-to-add entry of the empty blob, or
\* none) and any HEAD blob; path 2 is an intent-to-add entry
InitStage ==
    LET
        StageHunks == {parse_hunk(1, 1, kinds) : kinds \in SeqsOf(LineKinds, 1, MaxSeqLines)}
        \* Bytes of a stored blob: 'a', LF, NUL, the two bytes of U+00E9 and 0xFF
        StoredBytes == {97, NL, 0, 195, 169, 255}
    IN
    /\ files = <<>>
    /\ selected_file = 0
    /\ selected_hunk = 0
    /\ scroll_offset = 0
    /\ message = ""
    /\ dirty = TRUE
    /\ no_stage = FALSE
    /\ \E stored \in SeqsOf(StoredBytes, 0, MaxStored) \cup {Absent},
          in_head \in {Absent, <<97, NL>>, <<97, 0>>, <<255, NL>>},
          ita \in BOOLEAN :
          /\ ita => stored = <<>>
          /\ index = <<stored, <<>> >>
          /\ head = <<in_head, Absent>>
          /\ intent_to_add = <<ita, TRUE>>
          /\ odb = {stored, in_head, <<>>} \ {Absent}
    /\ EditorIdle
    /\ arg \in [file_diff : {FileDiff(path, <<>>) : path \in 1..2},
                hunk : StageHunks,
                line_offset : {0}]
    /\ ret = <<>>
    /\ pc = "call"

CallStageHunk ==
    /\ pc = "call"
    /\ LET staged == stage_hunk(index, head, intent_to_add, odb,
                                arg.file_diff, arg.hunk, arg.line_offset)
       IN /\ index' = staged.index
          /\ intent_to_add' = staged.intent_to_add
          /\ odb' = staged.odb
          /\ ret' = staged.err
    /\ pc' = "stage_hunk"
    /\ UNCHANGED <<arg, files, selected_file, selected_hunk, scroll_offset,
                   message, dirty, no_stage, head, editorVars>>

SpecStage == InitStage /\ [][CallStageHunk]_vars

\* The stored content stage_hunk starts from: the blob the entry names, else
\* the blob of the HEAD tree, else nothing
StoredContent(path) ==
    IF index[path] # Absent THEN index[path]
    ELSE IF head[path] # Absent THEN head[path]
    ELSE <<>>

\* C19: when stage_hunk succeeds for a path, the index entry of that path
\* names a blob the object database holds, whose content is the stored
\* content with the hunk applied, and the entry's intent-to-add flag is
\* clear, whether or not it was set before.
C19_StagedEntryPointsAtBlob ==
    [][(pc = "call" /\ pc' = "stage_hunk" /\ ret' = Nothing) =>
          LET path == arg.file_diff.path IN
          /\ index'[path] = reconstruct_blob(StoredContent(path), arg.hunk,
                                             arg.line_offset)
          /\ index'[path] \in odb'
          /\ ~intent_to_add'[path]]_vars

\* A successful stage of an entry that was intent-to-add
C19_Witness ==
    /\ pc = "stage_hunk"
    /\ ret = Nothing
    /\ arg.file_diff.path = 2
    /\ ~intent_to_add[2]
    /\ index[2] # <<>>

\* Not text, said of the bytes a stored blob can hold here: a NUL, a 0xFF,
\* a 0xC3 without its continuation or a continuation without its lead
C20_NotText(bytes) ==
    \E i \in 1..Len(bytes) :
        \/ bytes[i] \in {0, 255}
        \/ bytes[i] = 195 /\ (i = Len(bytes) \/ bytes[i + 1] # 169)
        \/ bytes[i] = 169 /\ (i = 1 \/ bytes[i - 1] # 195)

\* C20: when the stored content of the path is not valid text, stage_hunk
\* returns an error naming the path, and the object database, the index
\* and its flags are what they were, for every path.
C20_BinaryContentRejected ==
    [][(pc = "call" /\ pc' = "stage_hunk"
            /\ C20_NotText(StoredContent(arg.file_diff.path))) =>
          /\ ret' # Nothing
          /\ ret'[1].path = arg.file_diff.path
          /\ odb' = odb
          /\ index' = index
          /\ intent_to_add' = intent_to_add]_vars

\* A failed stage of a path whose entry holds invalid UTF-8 without a NUL
C20_Witness ==
    /\ pc = "stage_hunk"
    /\ ret # Nothing
    /\ ret[1].path = 1
    /\ index[1] # Absent
    /\ ~contains_nul(index[1])

-----------------------------------------------------------------------------
(* editor.rs: templates and feedback extraction, on text as byte sequences *)

\* char::is_whitespace, for the ASCII range
IsWhitespace(c) == c \in {9, 10, 11, 12, 13, 32}

\* str::trim_end, str::trim_start and str::trim
RECURSIVE trim_end(_)
trim_end(s) ==
    IF s # <<>> /\ IsWhitespace(s[Len(s)]) THEN trim_end(SubSeq(s, 1, Len(s) - 1))
    ELSE s

RECURSIVE trim_start(_)
trim_start(s) ==
    IF s # <<>> /\ IsWhitespace(s[1]) THEN trim_start(Tail(s)) ELSE s

trim(s) == trim_start(trim_end(s))

\* str::starts_with
starts_with(s, p) == Len(s) >= Len(p) /\ SubSeq(s, 1, Len(p)) = p

\* LineKind::prefix (types.rs 59-65): " ", "+" or "-"
prefix(kind) ==
    IF kind = "Context" THEN <<32>> ELSE IF kind = "Added" THEN <<43>> ELSE <<45>>

\* A number in decimal, as format! prints it
RECURSIVE Decimal(_)
Decimal(n) == IF n < 10 THEN <<48 + n>> ELSE Append(Decimal(n \div 10), 48 + (n % 10))

\* The text of a header: "@@ -a,b +c,d @@", and " split p/t" after it for a
\* sub-hunk (diff.rs 194-202)
HeaderText(header) ==
    <<64, 64, 32, 45>> \o Decimal(header[2]) \o <<44>> \o Decimal(header[3])
        \o <<32, 43>> \o Decimal(header[4]) \o <<44>> \o Decimal(header[5])
        \o <<32, 64, 64>>
        \o (IF header[6] = 0 THEN <<>>
            ELSE <<32, 115, 112, 108, 105, 116, 32>> \o Decimal(header[6])
                    \o <<47>> \o Decimal(header[7]))

\* A line written with its terminator, unless its content ends with one
\* (editor.rs 119-122, 163-166)
WithNewline(content) ==
    IF ends_with_newline(content) THEN content ELSE Append(content, NL)

\* The file prepare_comment_tempfile writes (editor.rs 147-171)
prepare_comment_tempfile(hunk) ==
    LET
        \* "# Any new lines you add will be captured as comments."
        InstructionLine2 ==
            <<35, 32, 65, 110, 121, 32, 110, 101, 119, 32, 108, 105, 110, 101,
            115, 32, 121, 111, 117, 32, 97, 100, 100, 32, 119, 105, 108, 108, 32,
            98, 101, 32, 99, 97, 112, 116, 117, 114, 101, 100, 32, 97, 115, 32,
            99, 111, 109, 109, 101, 110, 116, 115, 46>>
        \* "# Add your comments anywhere in this file."
        InstructionLine1 ==
            <<35, 32, 65, 100, 100, 32, 121, 111, 117, 114, 32, 99, 111, 109, 109,
            101, 110, 116, 115, 32, 97, 110, 121, 119, 104, 101, 114, 101, 32,
            105, 110, 32, 116, 104, 105, 115, 32, 102, 105, 108, 101, 46>>
    IN
    Append(InstructionLine1, NL)
        \o Append(InstructionLine2, NL)
        \o <<35, 32>> \o Append(HeaderText(hunk.header), NL)
        \o <<NL>>
        \o Concat([i \in 1..Len(hunk.lines) |->
                      prefix(hunk.lines[i].kind) \o WithNewline(hunk.lines[i].content)])

\* extract_new_side_content (editor.rs 114-128)
extract_new_side_content(lines) ==
    Concat([i \in 1..Len(lines) |->
               IF lines[i].kind \in {"Context", "Added"}
               THEN WithNewline(lines[i].content) ELSE <<>>])

\* lines_match without the trim_end fallback
lines_match_exact(edited, original) == edited = original

\* lines_match (editor.rs 208-210)
lines_match(edited, original) ==
    edited = original \/ trim_end(edited) = trim_end(original)

\* "# COMMENT:"
CommentPrefix == <<35, 32, 67, 79, 77, 77, 69, 78, 84, 58>>

\* Where the body starts in the original (editor.rs 232-236)
body_start(original_lines) ==
    LET
        \* iter().position(|l| l.is_empty()), 0-based, None if there is none
        RECURSIVE PositionEmpty(_, _)
        PositionEmpty(lines, i) ==
            IF i >= Len(lines) THEN None
            ELSE IF lines[i + 1] = <<>> THEN i
            ELSE PositionEmpty(lines, i + 1)
        pos == PositionEmpty(original_lines, 0)
    IN IF pos = None THEN 0 ELSE pos + 1

\* A walk that never looks ahead
look_ahead_none(edited_line, original_body, orig_idx) == None

\* The look-ahead (editor.rs 264-273): over the original body lines after the
\* one at the cursor, skip(orig_idx + 1)
look_ahead(edited_line, original_body, orig_idx) ==
    LET
        \* The scan of the look-ahead from 0-based index j: the index of the first
        \* original body line that matches, None if there is none
        RECURSIVE LookAhead(_)
        LookAhead(j) ==
            IF j >= Len(original_body) THEN None
            ELSE IF lines_match(edited_line, original_body[j + 1]) THEN j
            ELSE LookAhead(j + 1)
    IN
    LookAhead(orig_idx + 1)

\* The comment's text (editor.rs 277-281)
CommentText(edited_line) ==
    IF starts_with(edited_line, CommentPrefix)
    THEN trim(SubSeq(edited_line, Len(CommentPrefix) + 1, Len(edited_line)))
    ELSE trim(edited_line)

\* The position recorded without the clamp
hunk_pos_unclamped(orig_idx, hunk_len) == orig_idx

\* The position recorded for a comment read at orig_idx (editor.rs 286)
hunk_pos(orig_idx, hunk_len) == Min(orig_idx, hunk_len)

\* parse_comment_result (editor.rs 218-305): Nothing, or Some(HunkFeedback)
parse_comment_result(original, edited, file_path, hunk_header, hunk_lines) ==
    LET
        \* The walk over the edited body (editor.rs 248-291) from its k-th line
        \* (1-based) with the cursor at orig_idx: the positioned comments
        RECURSIVE CommentLoop(_, _, _, _, _, _)
        CommentLoop(body, k, original_body, orig_idx, hunk_len, positioned) ==
            IF k > Len(body) THEN positioned
            ELSE
                LET edited_line == body[k] IN
                IF orig_idx < Len(original_body)
                      /\ lines_match(edited_line, original_body[orig_idx + 1])
                THEN CommentLoop(body, k + 1, original_body, orig_idx + 1, hunk_len,
                                 positioned)
                ELSE
                    LET blank == trim(edited_line) = <<>>
                        ahead == IF blank THEN None
                                 ELSE look_ahead(edited_line, original_body, orig_idx)
                        text == CommentText(edited_line)
                    IN IF ahead # None THEN
                           CommentLoop(body, k + 1, original_body, ahead + 1, hunk_len,
                                       positioned)
                       ELSE IF ~blank /\ text # <<>> THEN
                           CommentLoop(body, k + 1, original_body, orig_idx, hunk_len,
                                       Append(positioned,
                                              <<hunk_pos(orig_idx, hunk_len), text>>))
                       ELSE
                           CommentLoop(body, k + 1, original_body, orig_idx, hunk_len,
                                       positioned)
        \* The lines of the edited file taken as its body (editor.rs 239-243)
        edited_body(edited_lines, start) ==
            IF start < Len(edited_lines) THEN Skip(edited_lines, start) ELSE edited_lines
        original_lines == StrLines(original)
        edited_lines == StrLines(edited)
        start == body_start(original_lines)
        original_body == Skip(original_lines, start)
        positioned_comments ==
            CommentLoop(edited_body(edited_lines, start), 1, original_body, 0,
                        Len(hunk_lines), <<>>)
    IN IF positioned_comments = <<>> THEN Nothing
       ELSE Some([file_path |-> file_path,
                  hunk_header |-> hunk_header,
                  kind |-> "Comment",
                  content |-> Join([i \in 1..Len(positioned_comments) |->
                                       positioned_comments[i][2]]),
                  context_lines |-> hunk_lines,
                  comment_positions |-> positioned_comments])

-----------------------------------------------------------------------------
(* SpecComment: parse_comment_result on the template of a hunk and the     *)
(* file a user saved after one edit of it.                                 *)

\* A hunk line as the editor sees it: its kind and content
CommentLine(kind, content) ==
    [kind |-> kind, content |-> content, old_lineno |-> None, new_lineno |-> None]

\* A hunk with the given lines
CommentHunk(lines) ==
    LET ol == CountKinds(lines, {"Context", "Removed"})
        nl == CountKinds(lines, {"Context", "Added"})
    IN [header |-> Header(1, ol, 1, nl, 0, 0), lines |-> lines,
        status |-> "Pending", old_start |-> 1, old_lines |-> ol,
        new_start |-> 1, new_lines |-> nl]

\* The file an editor saves: every line with its terminator
SavedText(lines) == Concat([i \in 1..Len(lines) |-> Append(lines[i], NL)])

\* The call flush_pending_editor_state makes (app.rs 329-335) for a hunk and
\* a saved file; hunk_lines are the hunk's, or none as in the tests; edit
\* records how the user produced the saved file
InitComment ==
    LET
        \* The file saved after the edit
        Saved(original, edit) ==
            LET
                \* An editor that strips trailing whitespace from every line it saves
                StripLines(lines) == [i \in 1..Len(lines) |-> trim_end(lines[i])]
                lines == IF edit.strip THEN StripLines(StrLines(original))
                         ELSE StrLines(original)
            IN IF edit.op = "none" THEN
                   (IF edit.strip THEN SavedText(lines) ELSE original)
               ELSE IF edit.op = "insert" THEN
                   SavedText(SubSeq(lines, 1, edit.at) \o <<edit.text>>
                               \o SubSeq(lines, edit.at + 1, Len(lines)))
               ELSE SavedText([lines EXCEPT ![edit.at + 1] = edit.text])
        \* The edits of the template a user makes: none, one line inserted before
        \* the line at 0-based index at, or the line at that index replaced
        UserEdits(original) ==
            LET
                \* Lines a user types: "c", " c ", "# COMMENT:", "# COMMENT: c" and "+x",
                \* which is also the template line of an Added line "x"
                UserLines ==
                    {<<99>>, <<32, 99, 32>>, CommentPrefix, CommentPrefix \o <<32, 99>>, <<43, 120>>}
                n == Len(StrLines(original))
            IN [op : {"none"}, at : {0}, text : {<<>>}, strip : BOOLEAN]
                 \cup [op : {"insert"}, at : 0..n, text : UserLines, strip : BOOLEAN]
                 \cup [op : {"replace"}, at : body_start(StrLines(original))..(n - 1),
                       text : UserLines, strip : BOOLEAN]
        CommentLinesOf ==
            LET
                \* Contents of a hunk line: "x", an empty line and "y " with trailing space
                CommentContents == {<<120, NL>>, <<NL>>, <<121, 32, NL>>}
            IN
                          {CommentLine(k, c) : k \in LineKinds, c \in CommentContents}
    IN
    /\ SessionIdle
    /\ \E lines \in SeqsOf(CommentLinesOf, 0, MaxCommentLines) :
          LET hunk == CommentHunk(lines)
              original == prepare_comment_tempfile(hunk)
          IN \E edit \in UserEdits(original), hunk_lines \in {lines, <<>>} :
                arg = [original |-> original,
                       edited |-> Saved(original, edit),
                       file_path |-> 1,
                       hunk_header |-> hunk.header,
                       hunk_lines |-> hunk_lines,
                       hunk |-> hunk,
                       edit |-> edit]
    /\ ret = <<>>
    /\ pc = "call"

CallParseCommentResult ==
    /\ pc = "call"
    /\ ret' = parse_comment_result(arg.original, arg.edited, arg.file_path,
                                   arg.hunk_header, arg.hunk_lines)
    /\ pc' = "parse_comment_result"
    /\ UNCHANGED <<arg, sessionVars>>

SpecComment == InitComment /\ [][CallParseCommentResult]_vars

\* The comments of a result
Comments(r) == IF r = Nothing THEN <<>> ELSE r[1].comment_positions

\* C11: when the saved content is identical to the template, no comment
\* feedback is produced, whatever the template's shape.
C11_UnchangedTemplateNoFeedback ==
    (pc = "parse_comment_result" /\ arg.edited = arg.original) => ret = Nothing

\* The lines of the template's body, and the 0-based body index the edit is at
TemplateBody == Skip(StrLines(arg.original), body_start(StrLines(arg.original)))
EditBodyIndex == arg.edit.at - body_start(StrLines(arg.original))

\* The typed line is new: up to trailing whitespace it is no line of the
\* template body, and it carries text besides a legacy prefix
TypedLineIsNew ==
    /\ \A i \in 1..Len(TemplateBody) :
          trim_end(arg.edit.text) # trim_end(TemplateBody[i])
    /\ CommentText(arg.edit.text) # <<>>

\* One line inserted in the body of the whitespace-stripped template
StrippedBodyInsert ==
    /\ pc = "parse_comment_result"
    /\ arg.edit.op = "insert"
    /\ arg.edit.strip
    /\ EditBodyIndex >= 0

BodyLineReplaced ==
    /\ pc = "parse_comment_result"
    /\ arg.edit.op = "replace"
    /\ arg.hunk_lines = arg.hunk.lines
    /\ ~lines_match(arg.edit.text, TemplateBody[EditBodyIndex + 1])

C14_PositionsClamped ==
    pc = "parse_comment_result" =>
        LET cs == Comments(ret) IN
        /\ \A i \in 1..Len(cs) :
              /\ cs[i][1] <= Len(arg.hunk_lines)
              /\ cs[i][1] <= Len(TemplateBody)
              /\ cs[i][1] >= 0
              /\ i > 1 => cs[i - 1][1] <= cs[i][1]
        /\ (arg.edit.op = "insert" /\ EditBodyIndex >= 0 /\ TypedLineIsNew) =>
              cs[1][1] = (IF EditBodyIndex <= Len(arg.hunk_lines)
                          THEN EditBodyIndex ELSE Len(arg.hunk_lines))

\* A comment read with the cursor past the hunk's line count
C14_Witness ==
    /\ pc = "parse_comment_result"
    /\ arg.edit.op = "insert"
    /\ EditBodyIndex = 2
    /\ arg.hunk_lines = <<>>
    /\ Comments(ret) = <<<<0, <<99>>>>>>

\* C15: a non-blank line added anywhere in the template file - also above
\* the blank separator - that is no line of the template is captured as a
\* comment.
C15_AddedLineCaptured ==
    (/\ pc = "parse_comment_result"
     /\ arg.edit.op = "insert"
     /\ TypedLineIsNew
     /\ \A i \in 1..Len(StrLines(arg.original)) :
           trim_end(arg.edit.text) # trim_end(StrLines(arg.original)[i]))
        => \E i \in 1..Len(Comments(ret)) :
              Comments(ret)[i][2] = CommentText(arg.edit.text)

-----------------------------------------------------------------------------
(* editor.rs: parse_edit_result.  TextDiff::from_lines and unified_diff    *)
(* are the similar crate's; the edit script between the common prefix and  *)
(* the common suffix is taken as one replacement (the crate may find a     *)
(* shorter script, which changes the rendering's text, not whether there   *)
(* is one).                                                                *)

\* The lines of a text with their terminators, as TextDiff::from_lines
\* tokenizes it (texts here hold no "\r")
RECURSIVE LinesInclusive(_, _)
LinesInclusive(s, i) ==
    IF i > Len(s) THEN <<>>
    ELSE LET e == NextNL(s, i)
         IN IF e = 0 THEN <<SubSeq(s, i, Len(s))>>
            ELSE <<SubSeq(s, i, e)>> \o LinesInclusive(s, e + 1)

\* Length of the longest common prefix of two token sequences
RECURSIVE CommonPrefix(_, _)
CommonPrefix(a, b) ==
    IF a # <<>> /\ b # <<>> /\ Head(a) = Head(b)
    THEN 1 + CommonPrefix(Tail(a), Tail(b)) ELSE 0

\* A comparison that takes texts with the same lines for the same text
SameText_lines(original, edited) == StrLines(original) = StrLines(edited)

\* original == edited (editor.rs 181)
SameText(original, edited) == original = edited

\* parse_edit_result (editor.rs 174-204): Nothing, or Some(HunkFeedback)
parse_edit_result(original, edited, file_path, hunk_header, hunk_lines) ==
    LET
        \* The hunks of diff.unified_diff() rendered one after another (editor.rs
        \* 185-190): nothing when the token sequences are equal, else one hunk with
        \* up to three lines of context on each side of the replacement
        UnifiedDiff ==
            LET
                \* The lines of a unified hunk with the given prefix; a line without
                \* terminator gets one
                UnifiedLines(sign, tokens) ==
                    Concat([i \in 1..Len(tokens) |-> <<sign>> \o WithNewline(tokens[i])])
                \* A range of a unified hunk header: 0-based start and length
                UnifiedRange(start, len) ==
                    IF len = 1 THEN Decimal(start + 1)
                    ELSE Decimal(IF len = 0 THEN start ELSE start + 1) \o <<44>> \o Decimal(len)
                \* A sequence reversed
                Reverse(a) == [i \in 1..Len(a) |-> a[Len(a) + 1 - i]]
                old == LinesInclusive(original, 1)
                new == LinesInclusive(edited, 1)
                pre == CommonPrefix(old, new)
                suf == Min(CommonPrefix(Reverse(old), Reverse(new)),
                           Min(Len(old), Len(new)) - pre)
                before == Min(pre, context_lines)
                after == Min(suf, context_lines)
                old_mid == SubSeq(old, pre + 1, Len(old) - suf)
                new_mid == SubSeq(new, pre + 1, Len(new) - suf)
            IN IF old = new THEN <<>>
               ELSE <<64, 64, 32, 45>>
                        \o UnifiedRange(pre - before, before + Len(old_mid) + after)
                        \o <<32, 43>>
                        \o UnifiedRange(pre - before, before + Len(new_mid) + after)
                        \o <<32, 64, 64, NL>>
                        \o UnifiedLines(32, SubSeq(old, pre - before + 1, pre))
                        \o UnifiedLines(45, old_mid)
                        \o UnifiedLines(43, new_mid)
                        \o UnifiedLines(32, SubSeq(old, Len(old) - suf + 1,
                                                   Len(old) - suf + after))
    IN
    IF SameText(original, edited) THEN Nothing
    ELSE LET unified == UnifiedDiff
         IN IF unified = <<>> THEN Nothing
            ELSE Some([file_path |-> file_path,
                       hunk_header |-> hunk_header,
                       kind |-> "Edit",
                       content |-> unified,
                       context_lines |-> hunk_lines,
                       comment_positions |-> <<>>])

-----------------------------------------------------------------------------
(* SpecEdit: parse_edit_result on the edit template of a hunk and any      *)
(* saved text.                                                             *)

\* The call flush_pending_editor_state makes (app.rs 343-350): the original
\* is the hunk's edit template
InitEdit ==
    LET
        EditLinesOf ==
            LET
                \* Contents of a hunk line: "x" and an unterminated "y"
                EditContents == {<<120, NL>>, <<121>>}
            IN
                       {CommentLine(k, c) : k \in LineKinds, c \in EditContents}
    IN
    /\ SessionIdle
    /\ \E lines \in SeqsOf(EditLinesOf, 0, MaxEditLines),
          edited \in SeqsOf({120, 121, NL}, 0, MaxEdited) :
          arg = [original |-> extract_new_side_content(lines),
                 edited |-> edited,
                 file_path |-> 1,
                 hunk_header |-> CommentHunk(lines).header,
                 hunk_lines |-> lines]
    /\ ret = <<>>
    /\ pc = "call"

CallParseEditResult ==
    /\ pc = "call"
    /\ ret' = parse_edit_result(arg.original, arg.edited, arg.file_path,
                                arg.hunk_header, arg.hunk_lines)
    /\ pc' = "parse_edit_result"
    /\ UNCHANGED <<arg, sessionVars>>

SpecEdit == InitEdit /\ [][CallParseEditResult]_vars

\* The edit template of hunk lines: the contents of the Context and Added
\* lines in order, each terminated
RECURSIVE EditTemplate(_)
EditTemplate(lines) ==
    IF lines = <<>> THEN <<>>
    ELSE LET l == Head(lines)
             c == IF l.content[Len(l.content)] = NL THEN l.content
                  ELSE l.content \o <<NL>>
         IN (IF l.kind = "Removed" THEN <<>> ELSE c) \o EditTemplate(Tail(lines))

\* C16: parse_edit_result returns None exactly when the saved content is
\* identical to the hunk's edit template; otherwise it returns Edit feedback
\* with the given path, header and hunk lines and a non-empty rendering.
C16_EditFeedbackIffChanged ==
    pc = "parse_edit_result" =>
        /\ ret = Nothing <=> arg.edited = EditTemplate(arg.hunk_lines)
        /\ ret # Nothing =>
              /\ ret[1].kind = "Edit"
              /\ ret[1].file_path = arg.file_path
              /\ ret[1].hunk_header = arg.hunk_header
              /\ ret[1].context_lines = arg.hunk_lines
              /\ ret[1].content # <<>>

\* Feedback for a saved text that differs from the template only in its
\* final newline, for a hunk with a Removed line
C16_Witness ==
    /\ pc = "parse_edit_result"
    /\ ret # Nothing
    /\ arg.edited # <<>>
    /\ arg.edited \o <<NL>> = arg.original
    /\ \E i \in 1..Len(arg.hunk_lines) : arg.hunk_lines[i].kind = "Removed"

-----------------------------------------------------------------------------
(* app.rs: the editor session of the run loop.  The loop's steps (the      *)
(* check of the close notification, the handling of one event), the        *)
(* poller thread and the user in the editor pane interleave.               *)

\* editor.rs 77: 600 polls in the source, MaxPolls here
MAX_PANE_POLL_ITERATIONS == MaxPolls

\* The loop is running
Running == returned = Nothing

\* The file prepare_edit_tempfile writes (editor.rs 132-143)
prepare_edit_tempfile(hunk) == extract_new_side_content(hunk.lines)

\* App::start_editor_flow (app.rs 249-271) and the arm of run that keeps its
\* result (app.rs 497-518); opened tells whether tmux opened the pane
start_editor_flow(template, is_comment, what, opened) ==
    /\ Running
    /\ mode = "Browsing"
    /\ Len(sessions) < MaxSessions
    /\ IF HasCurrentHunk THEN
          IF opened THEN
              /\ tmpfile' = template
              /\ editor_state' = Some([is_comment |-> is_comment,
                                       original_content |-> template])
              /\ pane' = "open"
              /\ poller' = 0
              /\ rx' = 0
              /\ mode' = "WaitingForEditor"
              /\ dirty' = TRUE
              /\ sessions' = Append(sessions, [file |-> selected_file,
                                               hunk |-> selected_hunk,
                                               extractions |-> 0])
              /\ UNCHANGED message
          ELSE
              /\ message' = what
              /\ UNCHANGED <<tmpfile, editor_state, pane, poller, rx, mode,
                             dirty, sessions>>
       ELSE
          /\ message' = "No hunk selected"
          /\ UNCHANGED <<tmpfile, editor_state, pane, poller, rx, mode, dirty,
                         sessions>>
    /\ ResetCall
    /\ UNCHANGED <<files, selected_file, selected_hunk, scroll_offset, no_stage,
                   index, head, repoVars, feedback, returned>>

\* The key 'c': App::start_comment (app.rs 279-281)
start_comment ==
    \E opened \in BOOLEAN :
        start_editor_flow(IF HasCurrentHunk
                          THEN prepare_comment_tempfile(CurrentHunk) ELSE <<>>,
                          TRUE, "Comment error", opened)

\* The key 'e': App::start_edit (app.rs 274-276)
start_edit ==
    \E opened \in BOOLEAN :
        start_editor_flow(IF HasCurrentHunk
                          THEN prepare_edit_tempfile(CurrentHunk) ELSE <<>>,
                          FALSE, "Edit error", opened)

\* App::flush_pending_editor_state (app.rs 313-363) after editor_state.take():
\* captured is its return value; the pending state and its temp file are gone
flush_pending_editor_state(state, captured) ==
    LET
        \* What the extractor returns for the selected hunk (app.rs 328-350)
        Extracted(edited) ==
            LET file_path == files[selected_file + 1].path
                hunk == CurrentHunk
            IN IF state.is_comment
               THEN parse_comment_result(state.original_content, edited, file_path,
                                         hunk.header, hunk.lines)
               ELSE parse_edit_result(extract_new_side_content(hunk.lines), edited,
                                      file_path, hunk.header, hunk.lines)
        fb == IF HasCurrentHunk THEN Extracted(tmpfile) ELSE Nothing IN
    /\ captured = (fb # Nothing)
    /\ IF fb # Nothing THEN
          /\ feedback' = Append(feedback, fb[1])
          /\ files' = [files EXCEPT
                          ![selected_file + 1].hunks[selected_hunk + 1].status =
                              IF state.is_comment THEN "Commented" ELSE "Edited"]
       ELSE UNCHANGED <<feedback, files>>
    /\ mode' = "Browsing"
    /\ dirty' = TRUE
    /\ editor_state' = Nothing
    /\ tmpfile' = <<>>
    /\ sessions' = [sessions EXCEPT ![Len(sessions)].extractions =
                       IF HasCurrentHunk THEN @ + 1 ELSE @]

\* The loop's check of the close notification (app.rs 427-447)
editor_closed ==
    /\ Running
    /\ editor_state # Nothing
    /\ rx > 0
    /\ rx' = rx - 1
    /\ \E captured \in BOOLEAN :
          /\ flush_pending_editor_state(editor_state[1], captured)
          /\ message' = IF ~captured THEN "No changes detected"
                        ELSE IF editor_state[1].is_comment THEN "Comment captured"
                        ELSE "Edit captured"
    /\ ResetCall
    /\ UNCHANGED <<selected_file, selected_hunk, scroll_offset, no_stage, index,
                   head, repoVars, pane, poller, returned>>

\* The key 'q' (app.rs 453-472): while waiting for the editor the pending
\* state is flushed first; run returns the feedback
quit ==
    /\ Running
    /\ IF mode = "WaitingForEditor" /\ editor_state # Nothing THEN
          /\ \E captured \in BOOLEAN :
                flush_pending_editor_state(editor_state[1], captured)
          /\ returned' = Some(feedback')
       ELSE
          /\ returned' = Some(feedback)
          /\ UNCHANGED <<feedback, files, mode, dirty, editor_state, tmpfile,
                         sessions>>
    /\ ResetCall
    /\ UNCHANGED <<selected_file, selected_hunk, scroll_offset, message,
                   no_stage, index, head, repoVars, pane, poller, rx>>

\* A left click on row idx of the file list (app.rs 284-303, 522-528),
\* handled in every mode
handle_mouse_click ==
    /\ Running
    /\ \E idx \in 0..(Len(files) - 1) :
          /\ selected_file' = idx
          /\ selected_hunk' = 0
          /\ scroll_offset' = 0
          /\ dirty' = TRUE
    /\ ResetCall
    /\ UNCHANGED <<files, message, no_stage, index, head, repoVars, editorVars>>

\* The poller thread without the send that follows the last poll
wait_for_pane_close_no_timeout ==
    /\ Running
    /\ poller # None
    /\ IF poller < MAX_PANE_POLL_ITERATIONS /\ pane = "open" THEN
          /\ poller' = poller + 1
          /\ rx' = rx
       ELSE
          /\ rx' = IF pane = "open" THEN rx ELSE rx + 1
          /\ poller' = None
    /\ UNCHANGED <<files, selected_file, selected_hunk, scroll_offset, message,
                   dirty, no_stage, index, head, repoVars, mode, feedback,
                   editor_state, tmpfile, pane, returned, sessions, callVars>>

\* One iteration of the poller thread (editor.rs 84-94): the signal is sent
\* when the pane is gone, or after the last poll
wait_for_pane_close ==
    LET
        \* pane_exists (editor.rs 101-110): whether tmux lists the pane; false
        \* as well when the tmux command cannot be run
        pane_exists(tmux_ran) == tmux_ran /\ pane = "open"
    IN
    /\ Running
    /\ poller # None
    /\ \E tmux_ran \in BOOLEAN :
          IF poller < MAX_PANE_POLL_ITERATIONS /\ pane_exists(tmux_ran) THEN
             /\ poller' = poller + 1
             /\ rx' = rx
          ELSE
             /\ rx' = rx + 1
             /\ poller' = None
    /\ UNCHANGED <<files, selected_file, selected_hunk, scroll_offset, message,
                   dirty, no_stage, index, head, repoVars, mode, feedback,
                   editor_state, tmpfile, pane, returned, sessions, callVars>>

\* The user saves the file in the editor pane
user_saves ==
    LET
        \* What the user saves in the editor: the opened file with a line "c"
        \* appended, or just the line "z"
        UserSaves(opened) == {opened \o <<99, NL>>, <<122, NL>>}
    IN
    /\ Running
    /\ pane = "open"
    /\ editor_state # Nothing
    /\ tmpfile' \in UserSaves(editor_state[1].original_content)
    /\ tmpfile' # tmpfile
    /\ UNCHANGED <<files, selected_file, selected_hunk, scroll_offset, message,
                   dirty, no_stage, index, head, repoVars, mode, feedback,
                   editor_state, pane, poller, rx, returned, sessions, callVars>>

\* The user closes the editor: tmux destroys the pane
user_closes_editor ==
    /\ Running
    /\ pane = "open"
    /\ pane' = "closed"
    /\ UNCHANGED <<files, selected_file, selected_hunk, scroll_offset, message,
                   dirty, no_stage, index, head, repoVars, mode, feedback,
                   editor_state, tmpfile, poller, rx, returned, sessions,
                   callVars>>

\* A navigation key, handled only while browsing (app.rs 454-485)
browse_next_hunk ==
    /\ Running
    /\ mode = "Browsing"
    /\ select_next_hunk

-----------------------------------------------------------------------------
(* SpecEditor: a review-only session on a text file with two hunks and a   *)
(* file whose change has no hunk (a mode-only change); binary files are    *)
(* filtered out before run (main.rs 146-153).                              *)

InitEditor ==
    /\ files = <<FileDiff(1, IngestHunks(<<<<"Context", "Removed", "Added">>,
                                          <<"Added">>>>, 1, 1, 1)),
                 FileDiff(2, <<>>)>>
    /\ selected_file = 0
    /\ selected_hunk = 0
    /\ scroll_offset = 0
    /\ message = ""
    /\ dirty = TRUE
    /\ no_stage = TRUE
    /\ index = <<>>
    /\ head = <<>>
    /\ RepoTracked
    /\ EditorIdle
    /\ arg = <<>>
    /\ ret = <<>>
    /\ pc = "idle"

NextEditor ==
    \/ start_comment
    \/ start_edit
    \/ editor_closed
    \/ quit
    \/ handle_mouse_click
    \/ wait_for_pane_close
    \/ user_saves
    \/ user_closes_editor
    \/ browse_next_hunk

SpecEditor == InitEditor /\ [][NextEditor]_vars

\* The poller is an operating-system thread that sleeps 500 ms between polls
\* (editor.rs 89): it always gets its next iteration.  Nothing obliges the
\* user or the loop to act.
SpecEditorFair == SpecEditor /\ WF_vars(wait_for_pane_close)

\* The hunk the pending editor session was opened for
OpenedHunk ==
    files[sessions[Len(sessions)].file + 1].hunks[sessions[Len(sessions)].hunk + 1]

\* What the saved temp file holds for the pending session: the extractor's
\* result on it for the hunk the editor was opened for
PendingFeedback ==
    IF editor_state[1].is_comment
    THEN parse_comment_result(editor_state[1].original_content, tmpfile, 1,
                              OpenedHunk.header, OpenedHunk.lines)
    ELSE parse_edit_result(extract_new_side_content(OpenedHunk.lines), tmpfile,
                           1, OpenedHunk.header, OpenedHunk.lines)

\* C17: when the user quits while the session waits for the editor with a
\* pending editor session, the feedback the saved temp file holds is part of
\* the feedback list run returns.
C17_QuitReturnsPendingFeedback ==
    [][(/\ mode = "WaitingForEditor"
        /\ editor_state # Nothing
        /\ returned = Nothing
        /\ returned' # Nothing
        /\ PendingFeedback # Nothing) =>
           \E i \in 1..Len(returned'[1]) :
              /\ returned'[1][i].kind = PendingFeedback[1].kind
              /\ returned'[1][i].content = PendingFeedback[1].content]_vars

\* C18: for every editor session started, the extractor has run exactly
\* once as soon as the session is no longer pending, and never more than
\* once.
C18_ExtractedExactlyOnce ==
    \A s \in 1..Len(sessions) :
        sessions[s].extractions =
            IF s = Len(sessions) /\ editor_state # Nothing THEN 0 ELSE 1

-----------------------------------------------------------------------------
(* SpecNoStage: the session of Spec in review-only mode.  --no-stage sets  *)
(* App.no_stage (main.rs 18-20, 122) and patch mode always passes true    *)
(* (main.rs 98-102).                                                       *)

InitNoStage ==
    /\ \E shape \in SeqsOf(LineKinds, 1, MaxHunkLines), eol \in BOOLEAN :
          LET hunks == IngestHunks(<<shape, SecondHunkShape>>, 1, 1, MaxGap)
              text == OldFile(OldExtent(hunks), eol)
          IN /\ files = <<FileDiff(1, hunks)>>
             /\ index = <<text>>
             /\ head = <<text>>
    /\ selected_file = 0
    /\ selected_hunk = 0
    /\ scroll_offset = 0
    /\ message = ""
    /\ dirty = TRUE
    /\ no_stage = TRUE
    /\ RepoTracked
    /\ EditorIdle
    /\ arg = <<>>
    /\ ret = <<>>
    /\ pc = "idle"

SpecNoStage == InitNoStage /\ [][Next]_vars

\* C21: in review-only mode no session operation changes the index (its
\* entries, their flags, the blobs written), and accepting a pending hunk
\* sets its status to Staged and advances the selection.
C21_NoStageLeavesIndex ==
    [][/\ index' = index
       /\ intent_to_add' = intent_to_add
       /\ odb' = odb
       /\ (is_pending /\ pc' # "split_hunk" /\ stage_current_hunk) =>
             /\ files'[selected_file + 1].hunks[selected_hunk + 1].status = "Staged"
             /\ <<selected_file', selected_hunk'>> =
                    NextSelection(files', selected_file, selected_hunk)]_vars

\* Both hunks accepted in review-only mode, the index still the HEAD text
C21_Witness ==
    /\ no_stage
    /\ \A h \in 1..Len(files[1].hunks) : files[1].hunks[h].status = "Staged"
    /\ index = head
    /\ odb = {head[1]}

-----------------------------------------------------------------------------
(* patch.rs: ingestion of unified-diff text.  A Result is Ok(v) or Err(e); *)
(* an error e holds its message's fixed text and the text formatted into   *)
(* it.                                                                     *)

Ok(v) == [ok |-> TRUE, value |-> v]
Err(msg, text) == [ok |-> FALSE, error |-> [msg |-> msg, text |-> text]]

\* The keywords of the format
DiffGit == <<100, 105, 102, 102, 32, 45, 45, 103, 105, 116, 32>>
AtAt == <<64, 64, 32>>
ClosingAtAt == <<32, 64, 64>>
PlusPlusPlus == <<43, 43, 43, 32>>
MinusMinusMinus == <<45, 45, 45, 32>>

\* str::strip_prefix when the prefix is there
strip_prefix(s, p) == SubSeq(s, Len(p) + 1, Len(s))

\* str::find: the 0-based index of the first occurrence of pat, or None
find(s, pat) ==
    LET at == {i \in 0..(Len(s) - Len(pat)) : SubSeq(s, i + 1, i + Len(pat)) = pat}
    IN IF at = {} THEN None ELSE CHOOSE i \in at : \A j \in at : i <= j

\* str::split_whitespace().collect()
RECURSIVE split_whitespace(_)
split_whitespace(s) ==
    LET t == trim_start(s)
        ws == {i \in 1..Len(t) : IsWhitespace(t[i])}
        e == IF ws = {} THEN Len(t) + 1 ELSE CHOOSE i \in ws : \A j \in ws : i <= j
    IN IF t = <<>> THEN <<>>
       ELSE <<SubSeq(t, 1, e - 1)>> \o split_whitespace(SubSeq(t, e, Len(t)))

\* str::parse::<u32>() and the conversion of its error by `?`: an optional
\* "+", then digits; the error's message names no text
parse_u32(s) ==
    LET
        RECURSIVE DigitsValue(_)
        DigitsValue(d) ==
            IF d = <<>> THEN 0 ELSE 10 * DigitsValue(SubSeq(d, 1, Len(d) - 1)) + (d[Len(d)] - 48)
        \* d > e for two digit strings without leading zeros
        RECURSIVE DigitsGreater(_, _)
        DigitsGreater(d, e) ==
            IF Len(d) # Len(e) THEN Len(d) > Len(e)
            ELSE IF d = <<>> THEN FALSE
            ELSE IF d[1] # e[1] THEN d[1] > e[1]
            ELSE DigitsGreater(Tail(d), Tail(e))
        \* The digits of a number without leading zeros
        RECURSIVE StripZeros(_)
        StripZeros(d) == IF Len(d) > 1 /\ d[1] = 48 THEN StripZeros(Tail(d)) ELSE d
        \* u32::MAX, "4294967295"
        U32Max == <<52, 50, 57, 52, 57, 54, 55, 50, 57, 53>>
        IsDigit(c) == c \in 48..57
        d == IF s # <<>> /\ s[1] = 43 THEN Tail(s) ELSE s IN
    IF s = <<>> THEN Err("cannot parse integer from empty string", <<>>)
    ELSE IF d = <<>> \/ \E i \in 1..Len(d) : ~IsDigit(d[i])
         THEN Err("invalid digit found in string", <<>>)
    ELSE IF DigitsGreater(StripZeros(d), U32Max)
         THEN Err("number too large to fit in target type", <<>>)
    ELSE Ok(DigitsValue(StripZeros(d)))

\* parse_range (patch.rs 271-280): "10,5", or "10" with the count 1
parse_range(range) ==
    LET comma == find(range, <<44>>) IN
    IF comma # None THEN
        LET start == parse_u32(SubSeq(range, 1, comma))
            count == parse_u32(SubSeq(range, comma + 2, Len(range)))
        IN IF ~start.ok THEN start
           ELSE IF ~count.ok THEN count
           ELSE Ok(<<start.value, count.value>>)
    ELSE
        LET start == parse_u32(range)
        IN IF ~start.ok THEN start ELSE Ok(<<start.value, 1>>)

\* parse_hunk_header (patch.rs 244-268) of a line that starts with "@@ "
parse_hunk_header(line) ==
    LET header == trim_end(line)
        after_at == strip_prefix(line, AtAt)
        end_at == find(after_at, ClosingAtAt)
        range_part == SubSeq(after_at, 1, end_at)
        parts == split_whitespace(range_part)
        old == parse_range(IF starts_with(parts[1], <<45>>)
                           THEN Tail(parts[1]) ELSE parts[1])
        new == parse_range(IF starts_with(parts[2], <<43>>)
                           THEN Tail(parts[2]) ELSE parts[2])
    IN IF ~starts_with(line, AtAt) THEN Err("Invalid hunk header: ", line)
       ELSE IF end_at = None THEN Err("Invalid hunk header: ", line)
       ELSE IF Len(parts) # 2 THEN Err("Invalid hunk header range: ", range_part)
       ELSE IF ~old.ok THEN old
       ELSE IF ~new.ok THEN new
       ELSE Ok([old_start |-> old.value[1], old_lines |-> old.value[2],
                new_start |-> new.value[1], new_lines |-> new.value[2],
                header |-> header])

\* The body loop without the skip of the "\ No newline" marker
RECURSIVE HunkBodyLoop_marker(_, _, _, _, _)
HunkBodyLoop_marker(lines, i, old_lineno, new_lineno, diff_lines) ==
    IF i >= Len(lines) THEN [lines |-> diff_lines, i |-> i]
    ELSE LET line == lines[i + 1] IN
         IF starts_with(line, AtAt) \/ starts_with(line, DiffGit)
         THEN [lines |-> diff_lines, i |-> i]
         ELSE IF starts_with(line, <<43>>)
         THEN HunkBodyLoop_marker(lines, i + 1, old_lineno, new_lineno + 1,
                  Append(diff_lines,
                         [kind |-> "Added", content |-> Append(Tail(line), NL),
                          old_lineno |-> None, new_lineno |-> new_lineno]))
         ELSE IF starts_with(line, <<45>>)
         THEN HunkBodyLoop_marker(lines, i + 1, old_lineno + 1, new_lineno,
                  Append(diff_lines,
                         [kind |-> "Removed", content |-> Append(Tail(line), NL),
                          old_lineno |-> old_lineno, new_lineno |-> None]))
         ELSE IF starts_with(line, <<32>>)
         THEN HunkBodyLoop_marker(lines, i + 1, old_lineno + 1, new_lineno + 1,
                  Append(diff_lines,
                         [kind |-> "Context", content |-> Append(Tail(line), NL),
                          old_lineno |-> old_lineno, new_lineno |-> new_lineno]))
         ELSE IF line = <<>>
         THEN HunkBodyLoop_marker(lines, i + 1, old_lineno + 1, new_lineno + 1,
                  Append(diff_lines,
                         [kind |-> "Context", content |-> <<NL>>,
                          old_lineno |-> old_lineno, new_lineno |-> new_lineno]))
         ELSE [lines |-> diff_lines, i |-> i]

\* The body loop of parse_hunk (patch.rs 148-210) from line i (0-based):
\* the lines parsed and the index of the line it stopped at
RECURSIVE HunkBodyLoop(_, _, _, _, _)
HunkBodyLoop(lines, i, old_lineno, new_lineno, diff_lines) ==
    LET
        NoNewlineMark == <<92, 32>>
    IN
    IF i >= Len(lines) THEN [lines |-> diff_lines, i |-> i]
    ELSE LET line == lines[i + 1] IN
         IF starts_with(line, AtAt) \/ starts_with(line, DiffGit)
         THEN [lines |-> diff_lines, i |-> i]
         ELSE IF starts_with(line, NoNewlineMark)
         THEN HunkBodyLoop(lines, i + 1, old_lineno, new_lineno, diff_lines)
         ELSE IF starts_with(line, <<43>>)
         THEN HunkBodyLoop(lines, i + 1, old_lineno, new_lineno + 1,
                  Append(diff_lines,
                         [kind |-> "Added", content |-> Append(Tail(line), NL),
                          old_lineno |-> None, new_lineno |-> new_lineno]))
         ELSE IF starts_with(line, <<45>>)
         THEN HunkBodyLoop(lines, i + 1, old_lineno + 1, new_lineno,
                  Append(diff_lines,
                         [kind |-> "Removed", content |-> Append(Tail(line), NL),
                          old_lineno |-> old_lineno, new_lineno |-> None]))
         ELSE IF starts_with(line, <<32>>)
         THEN HunkBodyLoop(lines, i + 1, old_lineno + 1, new_lineno + 1,
                  Append(diff_lines,
                         [kind |-> "Context", content |-> Append(Tail(line), NL),
                          old_lineno |-> old_lineno, new_lineno |-> new_lineno]))
         ELSE IF line = <<>>
         THEN HunkBodyLoop(lines, i + 1, old_lineno + 1, new_lineno + 1,
                  Append(diff_lines,
                         [kind |-> "Context", content |-> <<NL>>,
                          old_lineno |-> old_lineno, new_lineno |-> new_lineno]))
         ELSE [lines |-> diff_lines, i |-> i]

\* parse_hunk (patch.rs 139-240) on the header line at index start
parse_hunk_text(lines, start) ==
    LET \* The hunk of the parsed header h and the body lines (patch.rs 228-237).
        \* The counts the hunk keeps are those the header declares; the tally
        \* of the body (patch.rs 213-226) is only compared with them for the
        \* warning
        Built(h, body) ==
            Ok([hunk |-> [header |-> h.header,
                          lines |-> body.lines,
                          status |-> "Pending",
                          old_start |-> h.old_start,
                          old_lines |-> h.old_lines,
                          new_start |-> h.new_start,
                          new_lines |-> h.new_lines],
                i |-> body.i])
        \* `?` on the header (patch.rs 144), then the body loop
        AfterHeader(parsed) ==
            IF ~parsed.ok THEN parsed
            ELSE Built(parsed.value,
                       HunkBodyLoop(lines, start + 1, parsed.value.old_start,
                                    parsed.value.new_start, <<>>))
    IN AfterHeader(parse_hunk_header(lines[start + 1]))

\* strip_ab_prefix (patch.rs 127-135)
strip_ab_prefix(path) ==
    IF starts_with(path, <<97, 47>>) \/ starts_with(path, <<98, 47>>)
    THEN SubSeq(path, 3, Len(path)) ELSE path

\* parse_git_header_path (patch.rs 112-124)
parse_git_header_path(header) ==
    LET pos == find(header, <<32, 98, 47>>)
        words == split_whitespace(header)
    IN IF pos # None THEN SubSeq(header, pos + 4, Len(header))
       ELSE IF words # <<>> THEN strip_ab_prefix(words[Len(words)])
       ELSE header

\* The extended headers of a file (patch.rs 49-79) from line i
RECURSIVE ExtendedHeaders(_, _, _, _, _)
ExtendedHeaders(lines, i, status, is_binary, actual_path) ==
    LET
        DevNull == <<47, 100, 101, 118, 47, 110, 117, 108, 108>>
        Differ == <<32, 100, 105, 102, 102, 101, 114>>
        BinaryFiles == <<66, 105, 110, 97, 114, 121, 32, 102, 105, 108, 101, 115, 32>>
        RenameTo == <<114, 101, 110, 97, 109, 101, 32, 116, 111, 32>>
        DeletedFileMode == <<100, 101, 108, 101, 116, 101, 100, 32, 102, 105, 108, 101, 32, 109, 111, 100, 101>>
        NewFileMode == <<110, 101, 119, 32, 102, 105, 108, 101, 32, 109, 111, 100, 101>>
        \* str::ends_with
        ends_with(s, p) ==
            Len(s) >= Len(p) /\ SubSeq(s, Len(s) - Len(p) + 1, Len(s)) = p
    IN
    IF i >= Len(lines)
    THEN [i |-> i, status |-> status, is_binary |-> is_binary, path |-> actual_path]
    ELSE LET line == lines[i + 1] IN
         IF starts_with(line, DiffGit) \/ starts_with(line, AtAt)
         THEN [i |-> i, status |-> status, is_binary |-> is_binary,
               path |-> actual_path]
         ELSE IF starts_with(line, NewFileMode)
         THEN ExtendedHeaders(lines, i + 1, "Added", is_binary, actual_path)
         ELSE IF starts_with(line, DeletedFileMode)
         THEN ExtendedHeaders(lines, i + 1, "Deleted", is_binary, actual_path)
         ELSE IF starts_with(line, RenameTo)
         THEN ExtendedHeaders(lines, i + 1, "Renamed", is_binary,
                              strip_prefix(line, RenameTo))
         ELSE IF starts_with(line, BinaryFiles) /\ ends_with(line, Differ)
         THEN ExtendedHeaders(lines, i + 1, status, TRUE, actual_path)
         ELSE IF starts_with(line, PlusPlusPlus)
         THEN LET p == strip_ab_prefix(strip_prefix(line, PlusPlusPlus))
              IN ExtendedHeaders(lines, i + 1, status, is_binary,
                                 IF p # DevNull THEN p ELSE actual_path)
         ELSE IF starts_with(line, MinusMinusMinus)
         THEN LET rest == strip_prefix(line, MinusMinusMinus)
              IN ExtendedHeaders(lines, i + 1, status, is_binary,
                                 IF rest # DevNull /\ status = "Deleted"
                                 THEN strip_ab_prefix(rest) ELSE actual_path)
         ELSE ExtendedHeaders(lines, i + 1, status, is_binary, actual_path)

\* The hunks of a file, given up at the first line between two hunks
RECURSIVE FileHunks_stop(_, _, _)
FileHunks_stop(lines, i, hunks) ==
    IF i >= Len(lines) THEN Ok([hunks |-> hunks, i |-> i])
    ELSE LET line == lines[i + 1] IN
         IF starts_with(line, DiffGit) THEN Ok([hunks |-> hunks, i |-> i])
         ELSE IF starts_with(line, AtAt)
         THEN LET parsed == parse_hunk_text(lines, i)
              IN IF ~parsed.ok THEN parsed
                 ELSE FileHunks_stop(lines, parsed.value.i,
                                Append(hunks, parsed.value.hunk))
         ELSE Ok([hunks |-> hunks, i |-> Len(lines)])

\* The hunks of a file (patch.rs 84-97) from line i: the hunks and the index
\* of the next line, or the error of a header
RECURSIVE FileHunks(_, _, _)
FileHunks(lines, i, hunks) ==
    IF i >= Len(lines) THEN Ok([hunks |-> hunks, i |-> i])
    ELSE LET line == lines[i + 1] IN
         IF starts_with(line, DiffGit) THEN Ok([hunks |-> hunks, i |-> i])
         ELSE IF starts_with(line, AtAt)
         THEN LET \* `?` on the hunk (patch.rs 97), then the next line
                  AfterHunk(parsed) ==
                      IF ~parsed.ok THEN parsed
                      ELSE FileHunks(lines, parsed.value.i,
                                     Append(hunks, parsed.value.hunk))
              IN AfterHunk(parse_hunk_text(lines, i))
         ELSE FileHunks(lines, i + 1, hunks)

\* parse_file_diff (patch.rs 35-108) on the "diff --git" line at index start
parse_file_diff(git_header_rest, lines, start) ==
    LET \* The FileDiff of the extended headers and the hunks (patch.rs 100-107)
        Built(ext, parsed) ==
            IF ~parsed.ok THEN parsed
            ELSE Ok([file_diff |-> [path |-> ext.path, hunks |-> parsed.value.hunks,
                                    status |-> ext.status, is_binary |-> ext.is_binary],
                     i |-> parsed.value.i])
        \* The hunks after the extended headers (patch.rs 89-98)
        AfterHeaders(ext) == Built(ext, FileHunks(lines, ext.i, <<>>))
    IN AfterHeaders(ExtendedHeaders(lines, start + 1, "Modified", FALSE,
                                    parse_git_header_path(git_header_rest)))

\* The loop that keeps the files parsed before a failure
RECURSIVE UnifiedDiffLoop_lenient(_, _, _)
UnifiedDiffLoop_lenient(lines, i, fs) ==
    IF i >= Len(lines) THEN Ok(fs)
    ELSE LET line == lines[i + 1] IN
         IF starts_with(line, DiffGit)
         THEN LET parsed == parse_file_diff(strip_prefix(line, DiffGit), lines, i)
              IN IF ~parsed.ok THEN Ok(fs)
                 ELSE UnifiedDiffLoop_lenient(lines, parsed.value.i,
                                      Append(fs, parsed.value.file_diff))
         ELSE UnifiedDiffLoop_lenient(lines, i + 1, fs)

\* The loop of parse_unified_diff (patch.rs 17-28) from line i
RECURSIVE UnifiedDiffLoop(_, _, _)
UnifiedDiffLoop(lines, i, fs) ==
    IF i >= Len(lines) THEN Ok(fs)
    ELSE LET line == lines[i + 1] IN
         IF starts_with(line, DiffGit)
         THEN LET \* `?` on the file (patch.rs 21), then the next line
                  AfterFile(parsed) ==
                      IF ~parsed.ok THEN parsed
                      ELSE UnifiedDiffLoop(lines, parsed.value.i,
                                           Append(fs, parsed.value.file_diff))
              IN AfterFile(parse_file_diff(strip_prefix(line, DiffGit), lines, i))
         ELSE UnifiedDiffLoop(lines, i + 1, fs)

\* parse_unified_diff (patch.rs 8-31)
parse_unified_diff(input) ==
    IF trim(input) = <<>> THEN Ok(<<>>)
    ELSE UnifiedDiffLoop(StrLines(input), 0, <<>>)

-----------------------------------------------------------------------------
(* SpecParse: parse_unified_diff applied to the text of a patch.  The      *)
(* patch is written from a description: a first file whose first hunk has  *)
(* any body and any header, then a second hunk and a second file that are  *)
(* well formed, or whose header is not.                                    *)

BadHeaders == {"unclosed", "three", "badstart", "badcount", "overflow"}

MarkerLine == <<92, 32, 78, 111, 32, 110, 101, 119, 108, 105, 110, 101, 32, 97, 116, 32, 101, 110, 100, 32, 111, 102, 32, 102, 105, 108, 101>>

\* The text lines of a body, the counters starting at o and n
RECURSIVE BodyText(_, _, _)
BodyText(items, o, n) ==
    LET
        JunkLine == <<120>>
    IN
    IF items = <<>> THEN <<>>
    ELSE LET k == Head(items) IN
         IF k = "Added" THEN <<<<43>> \o NewText(n)>> \o BodyText(Tail(items), o, n + 1)
         ELSE IF k = "Removed"
         THEN <<<<45>> \o OldText(o)>> \o BodyText(Tail(items), o + 1, n)
         ELSE IF k = "Context"
         THEN <<<<32>> \o OldText(o)>> \o BodyText(Tail(items), o + 1, n + 1)
         ELSE IF k = "Blank" THEN <<<<>>>> \o BodyText(Tail(items), o + 1, n + 1)
         ELSE IF k = "Marker" THEN <<MarkerLine>> \o BodyText(Tail(items), o, n)
         ELSE <<JunkLine>> \o BodyText(Tail(items), o, n)

\* Number of the items that are of the kinds ks
CountItems(items, ks) == Cardinality({i \in 1..Len(items) : items[i] \in ks})

\* The header line of a hunk at os/ns with ol old and nl new lines
HeaderLine(variant, os, ol, ns, nl) ==
    LET
        \* A range as git writes it: the count is left out when it is 1
        RangeText(start, count) ==
            IF count = 1 THEN Decimal(start)
            ELSE Decimal(start) \o <<44>> \o Decimal(count)
        old == <<45>> \o RangeText(os, ol)
        new == <<43>> \o RangeText(ns, nl)
    IN IF variant = "plain" THEN AtAt \o old \o <<32>> \o new \o ClosingAtAt
       ELSE IF variant = "section"
       THEN AtAt \o old \o <<32>> \o new \o ClosingAtAt \o <<32, 102, 110>>
       ELSE IF variant = "miscount"
       THEN AtAt \o <<45>> \o Decimal(os) \o <<44>> \o Decimal(ol + 1) \o <<32, 43>>
                 \o Decimal(ns) \o <<44>> \o Decimal(nl + 1) \o ClosingAtAt
       ELSE IF variant = "unclosed" THEN AtAt \o old \o <<32>> \o new
       ELSE IF variant = "three"
       THEN AtAt \o old \o <<32>> \o new \o <<32, 57>> \o ClosingAtAt
       ELSE IF variant = "badstart"
       THEN AtAt \o <<45, 120, 44>> \o Decimal(ol) \o <<32>> \o new \o ClosingAtAt
       ELSE IF variant = "badcount"
       THEN AtAt \o old \o <<32, 43>> \o Decimal(ns) \o <<44, 121>> \o ClosingAtAt
       ELSE AtAt \o <<45>> \o Decimal(os) \o <<44, 57, 57, 57, 57, 57, 57, 57, 57, 57, 57, 57, 32>> \o new \o ClosingAtAt

\* The header lines of a file at path p
FileHeaderLines(p) ==
    <<DiffGit \o <<97, 47>> \o p \o <<32, 98, 47>> \o p,
      MinusMinusMinus \o <<97, 47>> \o p,
      PlusPlusPlus \o <<98, 47>> \o p>>

FirstPath == <<102>>
SecondPath == <<103>>

\* Where the well-formed second hunk and the second file's hunk start
SecondStart == 7
SecondFileStart == 1

\* The one-line replacement both of them hold
TailShape == <<"Removed", "Added">>

InitParse ==
    LET
        \* The lines of the patch
        PatchLines(d) ==
            LET
                TailHunkLines(variant, start) ==
                    <<HeaderLine(variant, start, 1, start, 1)>> \o BodyText(TailShape, start, start)
            IN
            FileHeaderLines(FirstPath)
            \o <<HeaderLine(d.header, d.start,
                            CountItems(d.items, {"Context", "Blank", "Removed"}), d.start,
                            CountItems(d.items, {"Context", "Blank", "Added"}))>>
            \o BodyText(d.items, d.start, d.start)
            \o (IF d.tail \in {"hunk", "hunk+file"} THEN TailHunkLines("plain", SecondStart)
                ELSE IF d.tail = "badhunk" THEN TailHunkLines("unclosed", SecondStart)
                ELSE <<>>)
            \o (IF d.tail \in {"file", "hunk+file"}
                THEN FileHeaderLines(SecondPath) \o TailHunkLines("plain", SecondFileStart)
                ELSE IF d.tail = "badfile"
                THEN FileHeaderLines(SecondPath) \o TailHunkLines("badcount", SecondFileStart)
                ELSE <<>>)
        Patches ==
            LET
                \* What follows the first hunk
                Tails == {"none", "hunk", "badhunk", "file", "badfile", "hunk+file"}
                \* How the first hunk's header is written
                GoodHeaders == {"plain", "section", "miscount"}
                \* What a body line of the first hunk is: a change line, a context line, a
                \* blank context line written without its leading space, the marker
                \* "\ No newline at end of file", or a line with none of the prefixes
                BodyItems == {"Added", "Removed", "Context", "Blank", "Marker", "Junk"}
            IN
            [items : SeqsOf(BodyItems, 0, MaxParseLines),
             header : GoodHeaders \cup BadHeaders,
             start : 1..MaxStart,
             tail : Tails]
        \* The text of the patch: every line terminated
        PatchText(d) ==
            LET ls == PatchLines(d) IN Concat([i \in 1..Len(ls) |-> Append(ls[i], NL)])
    IN
    /\ SessionIdle
    /\ \E d \in Patches : arg = [patch |-> d, input |-> PatchText(d)]
    /\ ret = <<>>
    /\ pc = "call"

CallParseUnifiedDiff ==
    /\ pc = "call"
    /\ ret' = parse_unified_diff(arg.input)
    /\ pc' = "parse_unified_diff"
    /\ UNCHANGED <<arg, sessionVars>>

SpecParse == InitParse /\ [][CallParseUnifiedDiff]_vars

\* parse_unified_diff has returned
ParsedPatch == pc = "parse_unified_diff"

\* The patch has a hunk header that cannot be tokenized
HasBadHeader(d) == d.header \in BadHeaders \/ d.tail \in {"badhunk", "badfile"}

\* The first header line of the patch that cannot be tokenized
OffendingHeader(d) ==
    IF d.header \in BadHeaders
    THEN HeaderLine(d.header, d.start,
                    CountItems(d.items, {"Context", "Blank", "Removed"}), d.start,
                    CountItems(d.items, {"Context", "Blank", "Added"}))
    ELSE IF d.tail = "badhunk" THEN HeaderLine("unclosed", SecondStart, 1, SecondStart, 1)
    ELSE HeaderLine("badcount", SecondFileStart, 1, SecondFileStart, 1)

\* The text of a header line between "@@ " and " @@" (to the end of the line
\* without the closing marker)
RangePart(line) ==
    LET after == strip_prefix(line, AtAt)
        e == find(after, ClosingAtAt)
    IN IF e = None THEN after ELSE SubSeq(after, 1, e)

\* C22: when a hunk header of the patch cannot be tokenized (no closing
\* marker, three ranges, a start or a count that is not a u32), in the first
\* hunk or after well-formed hunks and files, parse_unified_diff returns an
\* error and no FileDiff.
C22_BadHeaderFailsAll ==
    (ParsedPatch /\ HasBadHeader(arg.patch)) =>
        /\ ~ret.ok
        /\ DOMAIN ret = {"ok", "error"}

\* An error for the header of the second file, after a first file whose
\* hunk is well formed
C22_Witness ==
    /\ ParsedPatch
    /\ arg.patch.header = "plain"
    /\ arg.patch.items = <<"Removed", "Added">>
    /\ arg.patch.tail = "badfile"
    /\ ~ret.ok

\* C23: every error of parse_unified_diff carries the header line that
\* failed or its range text.
C23_ErrorNamesHeader ==
    (ParsedPatch /\ ~ret.ok) =>
        ret.error.text \in {OffendingHeader(arg.patch),
                            RangePart(OffendingHeader(arg.patch))}

\* C24: every ingested hunk's old_lines and new_lines are the tallies of its
\* lines, whatever the header declares.
C24_CountsAreParsed ==
    (ParsedPatch /\ ret.ok) =>
        \A f \in 1..Len(ret.value) : \A h \in 1..Len(ret.value[f].hunks) :
            LET hunk == ret.value[f].hunks[h] IN
            /\ hunk.old_lines = CountKinds(hunk.lines, {"Context", "Removed"})
            /\ hunk.new_lines = CountKinds(hunk.lines, {"Context", "Added"})

\* The items before the first line with none of the prefixes
RECURSIVE BeforeJunk(_)
BeforeJunk(items) ==
    IF items = <<>> \/ Head(items) = "Junk" THEN <<>>
    ELSE <<Head(items)>> \o BeforeJunk(Tail(items))

\* The lines the items stand for: markers stand for none, a blank line for
\* a context line "\n"
RECURSIVE IntendedLines(_, _, _)
IntendedLines(items, o, n) ==
    IF items = <<>> THEN <<>>
    ELSE LET k == Head(items) IN
         IF k = "Marker" THEN IntendedLines(Tail(items), o, n)
         ELSE IF k = "Blank"
         THEN <<[kind |-> "Context", content |-> <<NL>>,
                 old_lineno |-> o, new_lineno |-> n]>>
              \o IntendedLines(Tail(items), o + 1, n + 1)
         ELSE HunkBody(<<k>>, o, n)
              \o IntendedLines(Tail(items), IF k = "Added" THEN o ELSE o + 1,
                               IF k = "Removed" THEN n ELSE n + 1)

\* C25: when a body line of the first hunk has none of the prefixes and all
\* headers are well formed, ingestion succeeds, the first hunk holds exactly
\* the lines before that line, and the later hunk of the file and the later
\* file are ingested with their lines.
C25_UnknownLineEndsHunkOnly ==
    (/\ ParsedPatch
     /\ ~HasBadHeader(arg.patch)
     /\ \E i \in 1..Len(arg.patch.items) : arg.patch.items[i] = "Junk") =>
        LET d == arg.patch
            later_hunk == d.tail \in {"hunk", "hunk+file"}
            later_file == d.tail \in {"file", "hunk+file"}
        IN /\ ret.ok
           /\ Len(ret.value) = IF later_file THEN 2 ELSE 1
           /\ Len(ret.value[1].hunks) = IF later_hunk THEN 2 ELSE 1
           /\ ret.value[1].hunks[1].lines =
                  IntendedLines(BeforeJunk(d.items), d.start, d.start)
           /\ later_hunk =>
                  ret.value[1].hunks[2].lines =
                      HunkBody(TailShape, SecondStart, SecondStart)
           /\ later_file =>
                  /\ ret.value[2].path = SecondPath
                  /\ Len(ret.value[2].hunks) = 1
                  /\ ret.value[2].hunks[1].lines =
                         HunkBody(TailShape, SecondFileStart, SecondFileStart)

\* A first hunk cut short after one line, followed by a hunk and a file
C25_Witness ==
    /\ ParsedPatch
    /\ arg.patch.header = "plain"
    /\ arg.patch.items = <<"Removed", "Junk", "Added">>
    /\ arg.patch.tail = "hunk+file"
    /\ ret.ok
    /\ Len(ret.value[1].hunks[1].lines) = 1

OnOldSide(l) == l.kind \in {"Context", "Removed"}
OnNewSide(l) == l.kind \in {"Context", "Added"}

\* C26: in every ingested hunk the k-th line of the old side is numbered
\* old_start + k and the k-th of the new side new_start + k, an Added line
\* has no old number and a Removed line no new number, and the marker lines
\* of the first hunk give no line.
C26_LineNumbersCount ==
    (ParsedPatch /\ ret.ok) =>
        /\ \A f \in 1..Len(ret.value) : \A h \in 1..Len(ret.value[f].hunks) :
              LET hunk == ret.value[f].hunks[h]
                  old == SelectSeq(hunk.lines, OnOldSide)
                  new == SelectSeq(hunk.lines, OnNewSide)
              IN /\ \A k \in 1..Len(old) : old[k].old_lineno = hunk.old_start + (k - 1)
                 /\ \A k \in 1..Len(new) : new[k].new_lineno = hunk.new_start + (k - 1)
                 /\ \A i \in 1..Len(hunk.lines) :
                       /\ hunk.lines[i].kind = "Added" => hunk.lines[i].old_lineno = None
                       /\ hunk.lines[i].kind = "Removed" => hunk.lines[i].new_lineno = None
        /\ Len(ret.value[1].hunks[1].lines) =
               CountItems(BeforeJunk(arg.patch.items),
                          {"Added", "Removed", "Context", "Blank"})

\* A hunk with a marker between a removed and an added line
C26_Witness ==
    /\ ParsedPatch
    /\ ret.ok
    /\ arg.patch.start = 2
    /\ arg.patch.items = <<"Removed", "Marker", "Added">>
    /\ Len(ret.value[1].hunks[1].lines) = 2
    /\ ret.value[1].hunks[1].lines[2].new_lineno = 2

-----------------------------------------------------------------------------
(* diff.rs: parse_diff, ingestion of the library's diff.  The library's    *)
(* Diff is a sequence of deltas, each with its paths, status, binary flag  *)
(* and the hunks of its patch; a line has its origin character, its        *)
(* content as the file holds it, line terminator included, and its numbers.*)

\* parse_diff (diff.rs 10-100): binary files get no hunks
parse_diff(diff) ==
    LET
        \* The path of a delta (diff.rs 14-19)
        DeltaPath(delta) ==
            IF delta.new_path # Nothing THEN delta.new_path[1]
            ELSE IF delta.old_path # Nothing THEN delta.old_path[1]
            ELSE <<60, 117, 110, 107, 110, 111, 119, 110, 62>>
        \* The status of a delta (diff.rs 21-27)
        DeltaStatusOf(status) ==
            IF status \in {"Added", "Deleted", "Renamed", "Untracked"} THEN status
            ELSE "Modified"
        \* The hunks of a file (diff.rs 46-96)
        LibraryHunks(hunks) ==
            LET
                \* The lines of a hunk of the patch (diff.rs 56-84)
                LibraryLines(lines) ==
                    LET
                        \* The kind of a line by its origin (diff.rs 59-63): "+" and "-", and
                        \* Context for every other origin
                        KindOfOrigin(origin) ==
                            IF origin = 43 THEN "Added" ELSE IF origin = 45 THEN "Removed" ELSE "Context"
                    IN
                    [i \in 1..Len(lines) |->
                        [kind |-> KindOfOrigin(lines[i].origin),
                         content |-> lines[i].content,
                         old_lineno |-> lines[i].old_lineno,
                         new_lineno |-> lines[i].new_lineno]]
            IN
            [h \in 1..Len(hunks) |->
                [header |-> trim_end(hunks[h].header),
                 lines |-> LibraryLines(hunks[h].lines),
                 status |-> "Pending",
                 old_start |-> hunks[h].old_start,
                 old_lines |-> hunks[h].old_lines,
                 new_start |-> hunks[h].new_start,
                 new_lines |-> hunks[h].new_lines]]
    IN
    [f \in 1..Len(diff) |->
        [path |-> DeltaPath(diff[f]),
         hunks |-> IF diff[f].binary THEN <<>> ELSE LibraryHunks(diff[f].hunks),
         status |-> DeltaStatusOf(diff[f].status),
         is_binary |-> diff[f].binary]]

-----------------------------------------------------------------------------
(* SpecCross: one change of a file, ingested from the library's diff and   *)
(* from the text git prints for it.  The file's lines end in "\n" or in    *)
(* "\r\n", or the hunk's last line is the file's last line and has no      *)
(* terminator.                                                             *)

InitCross ==
    LET
        \* The header line of the change
        ChangeHeader(c) ==
            HeaderLine("plain", c.start, CountItems(c.shape, {"Context", "Removed"}),
                       c.start, CountItems(c.shape, {"Context", "Added"}))
        \* The lines of the change as the library reports them
        ChangeLines(c) ==
            LET
                \* The terminator of the i-th of n lines of the hunk
                Terminator(eol, i, n) ==
                    IF eol = "crlf" THEN <<CR, NL>>
                    ELSE IF eol = "none" /\ i = n THEN <<>>
                    ELSE <<NL>>
                body == HunkBody(c.shape, c.start, c.start) IN
            [i \in 1..Len(body) |->
                [origin |-> prefix(body[i].kind)[1],
                 content |-> SubSeq(body[i].content, 1, Len(body[i].content) - 1)
                                 \o Terminator(c.eol, i, Len(body)),
                 old_lineno |-> body[i].old_lineno,
                 new_lineno |-> body[i].new_lineno]]
        Changes ==
            LET
                \* A change has a changed line
                ChangeShapes ==
                    {shape \in SeqsOf(LineKinds, 1, MaxCrossLines) :
                        \E i \in 1..Len(shape) : shape[i] # "Context"}
                LineEndings == {"lf", "crlf", "none"}
            IN
            [shape : ChangeShapes,
             start : 1..MaxStart,
             eol : LineEndings]
        \* The text git prints for the change: each line after its origin, and the
        \* marker line after a line without terminator
        GitDiffText(c) ==
            LET ls == ChangeLines(c) IN
            Concat([i \in 1..Len(FileHeaderLines(FirstPath)) |->
                        Append(FileHeaderLines(FirstPath)[i], NL)])
            \o Append(ChangeHeader(c), NL)
            \o Concat([i \in 1..Len(ls) |->
                          <<ls[i].origin>> \o ls[i].content
                          \o (IF ls[i].content[Len(ls[i].content)] = NL THEN <<>>
                              ELSE <<NL>> \o Append(MarkerLine, NL))])
        \* The library's diff of the change
        LibraryDiff(c) ==
            <<[new_path |-> Some(FirstPath), old_path |-> Some(FirstPath),
               status |-> "Modified", binary |-> FALSE,
               hunks |-> <<[header |-> Append(ChangeHeader(c), NL),
                            old_start |-> c.start,
                            old_lines |-> CountItems(c.shape, {"Context", "Removed"}),
                            new_start |-> c.start,
                            new_lines |-> CountItems(c.shape, {"Context", "Added"}),
                            lines |-> ChangeLines(c)]>>]>>
    IN
    /\ SessionIdle
    /\ \E c \in Changes :
          arg = [change |-> c, diff |-> LibraryDiff(c), input |-> GitDiffText(c)]
    /\ ret = <<>>
    /\ pc = "call"

\* Both ingestions of the change
CallParseDiff ==
    /\ pc = "call"
    /\ ret' = [library |-> parse_diff(arg.diff),
               text |-> parse_unified_diff(arg.input)]
    /\ pc' = "parse_diff"
    /\ UNCHANGED <<arg, sessionVars>>

SpecCross == InitCross /\ [][CallParseDiff]_vars

\* What the two ingestions are compared on
HunkView(h) ==
    [old_start |-> h.old_start, old_lines |-> h.old_lines,
     new_start |-> h.new_start, new_lines |-> h.new_lines, lines |-> h.lines]

\* C27: for every change, text ingestion of the text git prints for it
\* succeeds and gives, file by file, the hunks structured ingestion gives:
\* same starts and counts and, line by line, same kind, numbers and content.
C27_CrossIngestionEqual ==
    (pc = "parse_diff") =>
        /\ ret.text.ok
        /\ Len(ret.text.value) = Len(ret.library)
        /\ \A f \in 1..Len(ret.library) :
              /\ Len(ret.text.value[f].hunks) = Len(ret.library[f].hunks)
              /\ \A h \in 1..Len(ret.library[f].hunks) :
                    HunkView(ret.text.value[f].hunks[h]) =
                        HunkView(ret.library[f].hunks[h])

-----------------------------------------------------------------------------
(* feedback.rs: the report.  A HunkFeedback holds its file path and its    *)
(* hunk header as text.                                                    *)

DEFAULT_CONTEXT_LINES == 5

ReviewComment == <<35, 32, 82, 69, 86, 73, 69, 87, 32, 67, 79, 77, 77, 69, 78, 84, 58, 32>>
RegionSeparator == <<32, 32, 46, 46, 46>>
OldFileMark == <<45, 45, 45, 32, 97, 47>>
NewFileMark == <<43, 43, 43, 32, 98, 47>>

\* The order of str: byte by byte, a proper prefix first
RECURSIVE str_less(_, _)
str_less(a, b) ==
    IF b = <<>> THEN FALSE
    ELSE IF a = <<>> THEN TRUE
    ELSE IF a[1] # b[1] THEN a[1] < b[1]
    ELSE str_less(Tail(a), Tail(b))

\* The keys in the order the feedback list first names them
RECURSIVE Keys_by_insertion(_)
Keys_by_insertion(feedbacks) ==
    IF feedbacks = <<>> THEN <<>>
    ELSE LET rest == Keys_by_insertion(SubSeq(feedbacks, 1, Len(feedbacks) - 1))
             path == feedbacks[Len(feedbacks)].file_path
         IN IF \E i \in 1..Len(rest) : rest[i] = path THEN rest
            ELSE Append(rest, path)

\* The keys of by_file in the order a BTreeMap iterates (feedback.rs 20-27)
Keys(feedbacks) ==
    LET
        \* Paths in ascending order
        RECURSIVE Ascending(_)
        Ascending(paths) ==
            IF paths = {} THEN <<>>
            ELSE LET least == CHOOSE p \in paths : \A q \in paths \ {p} : str_less(p, q)
                 IN <<least>> \o Ascending(paths \ {least})
    IN
    Ascending({feedbacks[i].file_path : i \in 1..Len(feedbacks)})

\* The merge test that leaves touching windows apart
Overlaps_strictly(ctx_start, last_end) == ctx_start < last_end

\* The merge test of a comment's window with the last region (feedback.rs 99)
Overlaps(ctx_start, last_end) == ctx_start <= last_end

\* A comment line of the report
CommentOut(text) == ReviewComment \o Append(text, NL)

\* No comment after the last line of a region
Remaining_dropped(comments, comment_idx) == <<>>

\* The comments left after the last line of a region (feedback.rs 136-142)
Remaining(comments, comment_idx) ==
    Concat([j \in 1..(Len(comments) - comment_idx) |->
               CommentOut(comments[comment_idx + j][2])])

\* format_comment_with_context (feedback.rs 69-144): what it appends
format_comment_with_context(fb, context_count) ==
    LET
        \* The regions of a comment feedback (feedback.rs 91-111) from its k-th
        \* position: n hunk lines, context_count lines around each comment
        RECURSIVE CommentRegions(_, _, _, _)
        CommentRegions(comment_positions, k, n, regions) ==
            IF k > Len(comment_positions) THEN regions
            ELSE LET pos == comment_positions[k][1]
                     ctx_start == saturating_sub(pos, context_count)
                     ctx_end == Min(pos + context_count, n)
                     last == regions[Len(regions)]
                 IN IF regions # <<>> /\ Overlaps(ctx_start, last.end)
                    THEN CommentRegions(comment_positions, k + 1, n,
                             [regions EXCEPT ![Len(regions)] =
                                 [start |-> last.start,
                                  end |-> Max(last.end, ctx_end),
                                  comments |-> Append(last.comments, comment_positions[k])]])
                    ELSE CommentRegions(comment_positions, k + 1, n,
                             Append(regions, [start |-> ctx_start, end |-> ctx_end,
                                              comments |-> <<comment_positions[k]>>]))
        \* The lines of a region from hunk line i, comment_idx comments emitted
        \* (feedback.rs 119-142)
        RECURSIVE EmitRegion(_, _, _, _)
        EmitRegion(region, hunk_lines, i, comment_idx) ==
            IF i >= region.end THEN Remaining(region.comments, comment_idx)
            ELSE IF comment_idx < Len(region.comments)
                    /\ region.comments[comment_idx + 1][1] = i
            THEN CommentOut(region.comments[comment_idx + 1][2])
                 \o EmitRegion(region, hunk_lines, i, comment_idx + 1)
            ELSE prefix(hunk_lines[i + 1].kind)
                 \o Append(trim_end_matches(hunk_lines[i + 1].content), NL)
                 \o EmitRegion(region, hunk_lines, i + 1, comment_idx)
    IN
    IF fb.comment_positions = <<>>
    THEN LET lines == StrLines(fb.content)
         IN Concat([i \in 1..Len(lines) |-> CommentOut(lines[i])])
    ELSE LET regions == CommentRegions(fb.comment_positions, 1,
                                       Len(fb.context_lines), <<>>)
         IN Concat([ri \in 1..Len(regions) |->
                       (IF ri > 1 THEN Append(RegionSeparator, NL) ELSE <<>>)
                       \o EmitRegion(regions[ri], fb.context_lines,
                                     regions[ri].start, 0)])

\* format_feedback (feedback.rs 14-52)
format_feedback(feedbacks, context_count) ==
    LET
        \* One entry of the report (feedback.rs 33-47)
        FormatEntry(fb) ==
            Append(fb.hunk_header, NL)
            \o (IF fb.kind = "Edit"
                THEN fb.content \o (IF fb.content # <<>> /\ fb.content[Len(fb.content)] = NL
                                    THEN <<>> ELSE <<NL>>)
                ELSE format_comment_with_context(fb, context_count))
        \* The entries of one key, in the order they were pushed (feedback.rs 21-23)
        EntriesOf(path) == SelectSeq(feedbacks, LAMBDA fb : fb.file_path = path)
    IN
    IF feedbacks = <<>> THEN <<>>
    ELSE LET keys == Keys(feedbacks) IN
         Concat([f \in 1..Len(keys) |->
                    OldFileMark \o Append(keys[f], NL)
                    \o NewFileMark \o Append(keys[f], NL)
                    \o LET file_feedbacks == EntriesOf(keys[f])
                       IN Concat([e \in 1..Len(file_feedbacks) |->
                                     FormatEntry(file_feedbacks[e])])])

-----------------------------------------------------------------------------
(* SpecFormat: format_feedback applied to a feedback list.  The list is    *)
(* any short list of edit and comment entries over three paths, or the one *)
(* comment feedback parse_comment_result makes of a hunk's template into   *)
(* which the user typed comment lines.                                     *)

\* The paths of the entries: "b", "a" and "ab"
FormatPaths == {<<98>>, <<97>>, <<97, 98>>}

\* The generated hunk of n lines
FormatHunk(n) ==
    LET
        \* The kind of the i-th line of a generated hunk
        PatternKind(i) ==
            IF i % 3 = 1 THEN "Context" ELSE IF i % 3 = 2 THEN "Removed" ELSE "Added"
    IN
                 parse_hunk(1, 1, [i \in 1..n |-> PatternKind(i)])

InitFormat ==
    LET
        \* Number of comments typed before the body lines 0..(p - 1)
        RECURSIVE TypedBefore(_, _)
        TypedBefore(typed, p) == IF p = 0 THEN 0 ELSE typed[p - 1] + TypedBefore(typed, p - 1)
        \* The body of the saved file from body line p: typed[p] comment lines
        \* before body line p, and typed[n] after the last one
        RECURSIVE TypedBody(_, _, _)
        TypedBody(body, typed, p) ==
            LET
                \* The k-th comment line the user types: "c1", "c2", ...
                TypedComment(k) == <<99, 48 + k>>
            IN
            [j \in 1..typed[p] |-> TypedComment(TypedBefore(typed, p) + j)]
            \o (IF p >= Len(body) THEN <<>>
                ELSE <<body[p + 1]>> \o TypedBody(body, typed, p + 1))
        \* The file the user saves
        TypedFile(original, typed) ==
            LET lines == StrLines(original)
                start == body_start(lines)
            IN SavedText(SubSeq(lines, 1, start) \o TypedBody(Skip(lines, start), typed, 0))
        \* The entries of a list: an edit whose content ends in a newline, an edit
        \* whose content does not, and a comment on a one-line hunk
        ListEntries ==
            {[file_path |-> p, hunk_header |-> HeaderText(Header(1, 1, 1, 1, 0, 0)),
              kind |-> "Edit", content |-> <<45, 120, 10, 43, 121, 10>>,
              context_lines |-> <<>>, comment_positions |-> <<>>] : p \in FormatPaths}
            \cup
            {[file_path |-> p, hunk_header |-> HeaderText(Header(2, 1, 2, 1, 0, 0)),
              kind |-> "Edit", content |-> <<45, 120, 10, 43, 121>>,
              context_lines |-> <<>>, comment_positions |-> <<>>] : p \in FormatPaths}
            \cup
            {[file_path |-> p, hunk_header |-> HeaderText(FormatHunk(1).header),
              kind |-> "Comment", content |-> <<99>>,
              context_lines |-> FormatHunk(1).lines,
              comment_positions |-> <<<<1, <<99>>>>>>] : p \in FormatPaths}
        \* The context-line counts the report is asked for (main.rs 29-31)
        ContextCounts == {0, 1, 2, DEFAULT_CONTEXT_LINES}
    IN
    /\ SessionIdle
    /\ \/ \E feedbacks \in SeqsOf(ListEntries, 0, MaxFeedbacks) :
             arg = [feedbacks |-> feedbacks,
                    context_count |-> DEFAULT_CONTEXT_LINES,
                    typed |-> <<>>]
       \/ \E n \in 0..MaxFormatLines, context_count \in ContextCounts :
          \E typed \in [0..n -> 0..MaxTyped], with_lines \in BOOLEAN :
             LET hunk == FormatHunk(n)
                 original == prepare_comment_tempfile(hunk)
                 fb == parse_comment_result(original, TypedFile(original, typed),
                                            <<97>>, HeaderText(hunk.header),
                                            IF with_lines THEN hunk.lines ELSE <<>>)
             IN /\ fb # Nothing
                /\ arg = [feedbacks |-> <<fb[1]>>,
                          context_count |-> context_count,
                          typed |-> typed]
    /\ ret = <<>>
    /\ pc = "call"

CallFormatFeedback ==
    /\ pc = "call"
    /\ ret' = format_feedback(arg.feedbacks, arg.context_count)
    /\ pc' = "format_feedback"
    /\ UNCHANGED <<arg, sessionVars>>

SpecFormat == InitFormat /\ [][CallFormatFeedback]_vars

\* format_feedback has returned
Formatted == pc = "format_feedback"

\* The indices, ascending, of the lines from index i on that start with pfx
RECURSIVE IndicesOf(_, _, _)
IndicesOf(lines, pfx, i) ==
    IF i > Len(lines) THEN <<>>
    ELSE (IF starts_with(lines[i], pfx) THEN <<i>> ELSE <<>>)
         \o IndicesOf(lines, pfx, i + 1)

\* The lines of the report
ReportLines == StrLines(ret)

\* The hunk headers of the entries of a path, in the order of the list
HeadersOf(feedbacks, path) ==
    LET own == SelectSeq(feedbacks, LAMBDA fb : fb.file_path = path)
    IN [k \in 1..Len(own) |-> own[k].hunk_header]

\* C28: the report has one "--- a/<path>" line per path of the list, each
\* followed by its "+++ b/<path>" line, in ascending order of the paths;
\* the hunk headers between a pair and the next are those of the path's
\* entries in the order of the list; the empty list gives the empty string.
C28_OnePairPerFileInOrder ==
    Formatted =>
        LET out == ReportLines
            pairs == IndicesOf(out, OldFileMark, 1)
            paths == {arg.feedbacks[i].file_path : i \in 1..Len(arg.feedbacks)}
        IN /\ arg.feedbacks = <<>> => ret = <<>>
           /\ {out[pairs[f]] : f \in 1..Len(pairs)} = {OldFileMark \o p : p \in paths}
           /\ \A f \in 1..Len(pairs) :
                 LET path == strip_prefix(out[pairs[f]], OldFileMark)
                     next == IF f < Len(pairs) THEN pairs[f + 1] ELSE Len(out) + 1
                     headers == IndicesOf(SubSeq(out, 1, next - 1), AtAt, pairs[f])
                 IN /\ out[pairs[f] + 1] = NewFileMark \o path
                    /\ f < Len(pairs) => str_less(out[pairs[f]], out[pairs[f + 1]])
                    /\ [k \in 1..Len(headers) |-> out[headers[k]]] =
                           HeadersOf(arg.feedbacks, path)

\* A list that names "b" before "a" and "ab", with two entries of "b"
C28_Witness ==
    /\ Formatted
    /\ Len(arg.feedbacks) = 3
    /\ arg.feedbacks[1].file_path = <<98>>
    /\ arg.feedbacks[2].file_path = <<97, 98>>
    /\ arg.feedbacks[3].file_path = <<98>>
    /\ arg.feedbacks[1].kind = "Comment"
    /\ arg.feedbacks[3].kind = "Edit"
    /\ ret # <<>>

\* A report of the one comment feedback the extractor made
OneComment ==
    /\ Formatted
    /\ Len(arg.feedbacks) = 1
    /\ arg.feedbacks[1].kind = "Comment"
    /\ arg.typed # <<>>

\* Its lines after the file header pair and the hunk header
CommentReport == Skip(ReportLines, 3)

\* A hunk line as the report shows it
RenderedLine(l) == prefix(l.kind) \o trim_end_matches(l.content)

\* The index of the first line after index j that is no comment line, or 0
NextHunkLine(out, j) ==
    LET after == {i \in (j + 1)..Len(out) : ~starts_with(out[i], ReviewComment)}
    IN IF after = {} THEN 0 ELSE CHOOSE i \in after : \A k \in after : i <= k

\* C29: the report of a comment feedback of the extractor has one comment
\* line per recorded comment, in their order; a comment whose position is
\* before its region's end stands right before the hunk line at that
\* position, any other at the end of its region; every other line is a
\* separator or one of the retained lines.
C29_CommentsAtPositions ==
    OneComment =>
        LET fb == arg.feedbacks[1]
            out == CommentReport
            at == IndicesOf(out, ReviewComment, 1)
            n == Len(fb.context_lines)
        IN /\ Len(at) = Len(fb.comment_positions)
           /\ \A k \in 1..Len(at) :
                 LET pos == fb.comment_positions[k][1]
                     next == NextHunkLine(out, at[k])
                 IN /\ out[at[k]] = ReviewComment \o fb.comment_positions[k][2]
                    /\ IF arg.context_count > 0 /\ pos < n
                       THEN /\ next # 0
                            /\ out[next] = RenderedLine(fb.context_lines[pos + 1])
                       ELSE next = 0 \/ out[next] = RegionSeparator
           /\ \A i \in 1..Len(out) :
                 \/ starts_with(out[i], ReviewComment)
                 \/ out[i] = RegionSeparator
                 \/ \E j \in 1..n : out[i] = RenderedLine(fb.context_lines[j])

\* Two comments typed before the second hunk line and one after the last
C29_Witness ==
    /\ OneComment
    /\ arg.context_count = 1
    /\ Len(arg.feedbacks[1].context_lines) = 3
    /\ arg.typed = (0 :> 0 @@ 1 :> 2 @@ 2 :> 0 @@ 3 :> 1)
    /\ Len(IndicesOf(CommentReport, ReviewComment, 1)) = 3

\* The k-th and the next comment of the feedback are in different regions:
\* the later one's window starts after the end of the region so far
StartsRegion(fb, k, context_count) ==
    fb.comment_positions[k + 1][1] - context_count >
        Min(fb.comment_positions[k][1] + context_count, Len(fb.context_lines))

\* C30: in the report of a comment feedback of the extractor, a separator
\* line stands between two consecutive comments exactly when the later
\* one's window does not overlap or touch the region built so far; there
\* are no other separators, none first and none last.
C30_SeparatorsBetweenRegions ==
    OneComment =>
        LET fb == arg.feedbacks[1]
            out == CommentReport
            at == IndicesOf(out, ReviewComment, 1)
            seps == {i \in 1..Len(out) : out[i] = RegionSeparator}
        IN /\ Len(at) = Len(fb.comment_positions)
           /\ \A k \in 1..(Len(at) - 1) :
                 (\E i \in seps : at[k] < i /\ i < at[k + 1])
                     <=> StartsRegion(fb, k, arg.context_count)
           /\ Cardinality(seps) =
                  Cardinality({k \in 1..(Len(at) - 1) :
                                  StartsRegion(fb, k, arg.context_count)})
           /\ 1 \notin seps
           /\ Len(out) \notin seps

\* Comments before the first and the second line share a region, a comment
\* after the fourth line has its own
C30_Witness ==
    /\ OneComment
    /\ arg.context_count = 1
    /\ Len(arg.feedbacks[1].context_lines) = 4
    /\ arg.typed = (0 :> 1 @@ 1 :> 1 @@ 2 :> 0 @@ 3 :> 0 @@ 4 :> 1)
    /\ Cardinality({i \in 1..Len(CommentReport) :
                       CommentReport[i] = RegionSeparator}) = 1

-----------------------------------------------------------------------------
(* The close notification (editor.rs 75-97).  poller counts the polls the  *)
(* thread has made and is None once it has returned; rx counts the signals *)
(* waiting in the receiver.                                                *)

\* C31: the receiver wait_for_pane_close returns gets exactly one signal:
\* only the poller sends, one signal at the step it ends; it ends at the
\* first poll that finds the pane gone and makes at most
\* MAX_PANE_POLL_ITERATIONS polls; and while run has not returned, a started
\* poller always leads to a signal in the receiver.
C31_OneSignalEventually ==
    /\ [][/\ rx' > rx => (rx' = rx + 1 /\ poller # None /\ poller' = None)
          /\ (poller # None /\ poller' = None) => rx' = rx + 1
          /\ (poller # None /\ pane = "closed" /\ poller' # poller) => poller' = None
          /\ (poller # None /\ poller' # None /\ poller' # poller) =>
                (poller' = poller + 1 /\ poller' <= MAX_PANE_POLL_ITERATIONS)
          /\ (poller = None /\ poller' # None) =>
                (poller' = 0 /\ rx' = 0 /\ Len(sessions') = Len(sessions) + 1)]_vars
    /\ (poller # None) ~> (rx > 0 \/ ~Running)

\* The poller has ended and sent its signal with the pane still open: after
\* the last poll, or at a poll for which tmux could not be asked
C31_Witness ==
    /\ Running
    /\ pane = "open"
    /\ poller = None
    /\ rx = 1
    /\ editor_state # Nothing

-----------------------------------------------------------------------------
(* The run loop: which hunk an editor session's feedback belongs to.       *)

\* C32: the feedback captured when an editor session ends carries the file
\* path, header and lines of the hunk the editor was opened for, is the
\* extractor's result for that hunk's template, and the hunk whose status
\* becomes Edited or Commented is that hunk and no other, whatever was
\* handled between opening the editor and the end of the session.
C32_AttributedToOpenedHunk ==
    [][(/\ editor_state # Nothing
        /\ editor_state' = Nothing
        /\ Len(feedback') > Len(feedback)) =>
           LET opened == sessions[Len(sessions)]
               fb == feedback'[Len(feedback')]
           IN /\ fb.file_path = files[opened.file + 1].path
              /\ fb.hunk_header = OpenedHunk.header
              /\ fb.context_lines = OpenedHunk.lines
              /\ Some(fb) = PendingFeedback
              /\ \A f \in 1..Len(files) : \A h \in 1..Len(files[f].hunks) :
                    files'[f].hunks[h].status =
                        IF f = opened.file + 1 /\ h = opened.hunk + 1
                        THEN (IF editor_state[1].is_comment THEN "Commented"
                              ELSE "Edited")
                        ELSE files[f].hunks[h].status]_vars

-----------------------------------------------------------------------------
(* SpecRun: the whole run loop in staging mode.  One step is the draw at   *)
(* the top of an iteration, the check of the close notification, or the    *)
(* handling of one event; the poller thread and the user in the editor     *)
(* pane interleave with them.  An event handled while dirty is still set   *)
(* is the one that follows the close check in the same iteration.  The     *)
(* focus panel, the scroll keys and resize events are left out; the        *)
(* session opens at most MaxRunSessions editor sessions.                   *)

\* The draw at the top of a loop iteration (app.rs 418-425)
draw ==
    /\ Running
    /\ dirty
    /\ dirty' = FALSE
    /\ UNCHANGED <<files, selected_file, selected_hunk, scroll_offset, message,
                   no_stage, index, head, repoVars, editorVars, callVars>>

\* The handling of a key without the test of the mode
handle_key_any_mode(key) ==
    /\ Running
    /\ CASE key = "q" -> quit
         [] key = "Down" -> select_next_hunk
         [] key = "Up" -> select_prev_hunk
         [] key = "y" -> stage_current_hunk
         [] key = "n" -> skip_current_hunk
         [] key = "s" -> split_current_hunk
         [] key = "e" -> Len(sessions) < MaxRunSessions /\ start_edit
         [] key = "c" -> Len(sessions) < MaxRunSessions /\ start_comment

\* Event::Key (app.rs 452-520): while waiting for the editor only 'q' is
\* looked at, every other key is dropped by the continue
handle_key(key) ==
    /\ Running
    /\ IF mode = "WaitingForEditor" THEN
          IF key = "q" THEN quit ELSE UNCHANGED vars
       ELSE
          CASE key = "q" -> quit
            [] key = "Down" -> select_next_hunk
            [] key = "Up" -> select_prev_hunk
            [] key = "y" -> stage_current_hunk
            [] key = "n" -> skip_current_hunk
            [] key = "s" -> split_current_hunk
            [] key = "e" -> Len(sessions) < MaxRunSessions /\ start_edit
            [] key = "c" -> Len(sessions) < MaxRunSessions /\ start_comment

\* The files of SpecEditor: a text file with two hunks and a file whose
\* change has no hunk.  The first file's blob is the old text, or the same
\* text in a single-byte encoding: its first byte 233 is no UTF-8 sequence,
\* and without a null byte it is a text file to the diff (main.rs 146-153
\* filters only binary files).
InitRun ==
    /\ \E utf8 \in BOOLEAN :
          LET hunks == IngestHunks(<<<<"Context", "Removed", "Added">>,
                                    <<"Added">>>>, 1, 1, 1)
              text == OldFile(OldExtent(hunks) + 1, TRUE)
              stored == IF utf8 THEN text ELSE <<233>> \o Tail(text)
          IN /\ files = <<FileDiff(1, hunks), FileDiff(2, <<>>)>>
             /\ index = <<stored, OldFile(1, TRUE)>>
             /\ head = <<stored, OldFile(1, TRUE)>>
    /\ selected_file = 0
    /\ selected_hunk = 0
    /\ scroll_offset = 0
    /\ message = ""
    /\ dirty = TRUE
    /\ no_stage = FALSE
    /\ RepoTracked
    /\ EditorIdle
    /\ arg = <<>>
    /\ ret = <<>>
    /\ pc = "idle"

NextRun ==
    \/ draw
    \/ editor_closed
    \/ \E key \in {"q", "Down", "Up", "y", "n", "s", "e", "c"} : handle_key(key)
    \/ handle_mouse_click
    \/ wait_for_pane_close
    \/ user_saves
    \/ user_closes_editor

SpecRun == InitRun /\ [][NextRun]_vars

\* The hunk's change is in the stored text of its file: one of its Added
\* lines is a line of the text, or one of its Removed lines no longer is
\* (the lines of a generated file are all different)
WrittenToIndex(path, hunk) ==
    LET stored == Range(StrLines(index[path]))
    IN \E i \in 1..Len(hunk.lines) :
          \/ /\ hunk.lines[i].kind = "Added"
             /\ trim_end_matches(hunk.lines[i].content) \in stored
          \/ /\ hunk.lines[i].kind = "Removed"
             /\ trim_end_matches(hunk.lines[i].content) \notin stored

\* C33: in staging mode, whatever the session has done, every hunk whose
\* change has been written to the index has status Staged, so that
\* compute_line_offset counts it for the later hunks of its file.
C33_WrittenHunksStayStaged ==
    ~no_stage =>
        \A f \in 1..Len(files) : \A h \in 1..Len(files[f].hunks) :
            WrittenToIndex(files[f].path, files[f].hunks[h]) =>
                files[f].hunks[h].status = "Staged"

\* C34: in staging mode no change is written to the index twice: when the
\* key 'y' writes the selected hunk, none of the hunk's Added lines is in
\* the stored text already (the lines of a generated file are all
\* different, so such a line was put there by staging this hunk, or the
\* hunk it was split from, before).
C34_NoChangeWrittenTwice ==
    [][(/\ ~no_stage
        /\ is_pending
        /\ pc' = "compute_line_offset"
        /\ stage_current_hunk) =>
          \A i \in 1..Len(CurrentHunk.lines) :
              CurrentHunk.lines[i].kind = "Added" =>
                  trim_end_matches(CurrentHunk.lines[i].content) \notin
                      Range(StrLines(index[files[selected_file + 1].path]))]_vars

-----------------------------------------------------------------------------
(* Split, then stage every sub-hunk *)

\* The stored text after the sub-hunks from the i-th on are staged in
\* order, those before it being Staged: each is written by reconstruct_blob
\* with the offset compute_line_offset gives it
RECURSIVE StageInOrder(_, _, _)
StageInOrder(content, subs, i) ==
    IF i > Len(subs) THEN content
    ELSE LET offset == compute_line_offset(<<FileDiff(1, subs)>>, 0, i - 1)
         IN StageInOrder(reconstruct_blob(content, subs[i], offset),
                         [subs EXCEPT ![i].status = "Staged"], i + 1)

\* C35: for an ingested hunk with two or more regions, staging the
\* sub-hunks split_hunk returns, in order, each with the offset computed
\* from the sub-hunks staged before it, writes the same content as staging
\* the hunk itself, whether or not the old file ends with a newline.
C35_SplitThenStageEquivalence ==
    (pc = "split_hunk" /\ Len(ret) >= 2) =>
        \A eol \in BOOLEAN :
            LET original == OldFile(arg.old_start + arg.old_lines, eol)
            IN StageInOrder(original, ret, 1) = reconstruct_blob(original, arg, 0)

-----------------------------------------------------------------------------
(* The run loop in staging mode: what the keys leave alone *)

\* C36: the keys 'y' (stage_current_hunk) and 'n' (skip_current_hunk),
\* handled while no hunk is selected or the selected hunk is Staged,
\* Skipped, Edited or Commented, leave every hunk and its status, the
\* selection, the message, the feedback list and the index unchanged.
C36_OnlyPendingDecided ==
    [][\A key \in {"y", "n"} :
          (/\ mode = "Browsing"
           /\ ~(HasCurrentHunk /\ CurrentHunk.status = "Pending")
           /\ pc' = "idle"
           /\ handle_key(key)) =>
              UNCHANGED <<files, selected_file, selected_hunk, message,
                          feedback, index, intent_to_add, odb>>]_vars

\* A Commented hunk is selected again while browsing, an earlier hunk
\* being in the index, and the last key changed nothing that is drawn
C36_Witness ==
    /\ Running
    /\ mode = "Browsing"
    /\ HasCurrentHunk
    /\ CurrentHunk.status = "Commented"
    /\ files[1].hunks[1].status = "Staged"
    /\ index # head
    /\ ~dirty
    /\ pc = "idle"

\* C37: while the session waits for the editor, a key other than 'q'
\* changes nothing at all; no step taken in that mode writes the index,
\* splits a hunk or opens another editor session.
C37_WaitingIgnoresKeys ==
    [][mode = "WaitingForEditor" =>
          /\ \A key \in {"Down", "Up", "y", "n", "s", "e", "c"} :
                handle_key(key) => UNCHANGED vars
          /\ index' = index
          /\ odb' = odb
          /\ Len(sessions') = Len(sessions)
          /\ \A f \in 1..Len(files) :
                Len(files'[f].hunks) = Len(files[f].hunks)]_vars

\* The editor is open on a Pending hunk that 'y' would write, after an
\* earlier hunk was staged, and the screen has been drawn
C37_Witness ==
    /\ Running
    /\ mode = "WaitingForEditor"
    /\ editor_state # Nothing
    /\ pane = "open"
    /\ ~no_stage
    /\ is_pending
    /\ files[1].hunks[1].status = "Staged"
    /\ ~dirty

\* C38: when stage_hunk fails for the selected Pending hunk, the key 'y'
\* reports the failure in the message and changes nothing else of the
\* session: every hunk keeps its status (the selected one stays Pending),
\* the selection and the scroll position stay, and the index is untouched.
C38_StageFailureLeavesSession ==
    [][(/\ mode = "Browsing"
        /\ ~no_stage
        /\ HasCurrentHunk
        /\ CurrentHunk.status = "Pending"
        /\ get_index_content(index, head, files[selected_file + 1].path).err
              # Nothing
        /\ pc' = "compute_line_offset"
        /\ handle_key("y")) =>
           /\ message' \in {"Stage error: File is not valid UTF-8",
                            "Stage error: File appears to be binary"}
           /\ UNCHANGED <<files, selected_file, selected_hunk, scroll_offset,
                          mode, feedback, index, intent_to_add, odb,
                          returned>>]_vars

\* The second hunk was selected and 'y' failed on it: it is still selected
\* and Pending, with the error as the message
C38_Witness ==
    /\ Running
    /\ message = "Stage error: File is not valid UTF-8"
    /\ pc = "compute_line_offset"
    /\ selected_hunk = 1
    /\ CurrentHunk.status = "Pending"
    /\ index = head

-----------------------------------------------------------------------------
(* The number of lines reconstruct_blob writes *)

\* C39: for a hunk whose old_lines and new_lines are its line tallies and
\* whose adjusted range lies inside the original, the text reconstruct_blob
\* returns reads back as (lines of the original) - old_lines + new_lines
\* lines, also when it removes every line of the original.
C39_LineCountAfterStaging ==
    LET hunk == arg.hunk
        Tally(kinds) ==
            Cardinality({i \in 1..Len(hunk.lines) : hunk.lines[i].kind \in kinds})
        orig_lines == StrLines(arg.original)
    IN (/\ pc = "reconstruct_blob"
        /\ hunk.old_lines = Tally({"Context", "Removed"})
        /\ hunk.new_lines = Tally({"Context", "Added"})
        /\ hunk_start_idx(hunk, arg.line_offset) + hunk.old_lines
               <= Len(orig_lines)) =>
           Len(StrLines(ret)) = Len(orig_lines) - hunk.old_lines + hunk.new_lines

-----------------------------------------------------------------------------
(* The run loop: the message and the draw *)

\* C40: every step of the loop that changes the status message leaves the
\* UI dirty, so that the next iteration draws the message.
C40_MessageChangeMarksDirty ==
    [][message' # message => dirty']_vars

====
